---- MODULE Spec2Model ----
(***************************************************************************)
(* Request dispatch of the express-like framework: Application             *)
(* (src/src/Application.ts) and Router (the Router class whose source is   *)
(* carried in src/src/__tests__/framework.test.ts, lines 470-720).         *)
(*                                                                         *)
(* Strings are sequences of one-character strings, so that the path        *)
(* operations (startsWith, split, the regular expression built by          *)
(* matchRoute) are computed character by character as the code does.       *)
(***************************************************************************)
EXTENDS Integers, Sequences, FiniteSets, TLC

(***************************************************************************)
(* Bounds of the model.                                                    *)
(***************************************************************************)
\* most registration calls (use, get, post, mount, setNotFoundHandler on the
\* Application; use, get, post on the Router) made before listen()
MaxRegistrations == 3
\* most operations (next, respond, write, throw, defer) the handlers perform,
\* all together, while one request is served
MaxOps == 3
\* segments of the patterns and paths given to the matchers on their own
MaxSegs == 2
\* times a matcher is run on the same inputs
MaxRuns == 2
\* segments of the request paths given to serveStatic
MaxUrlSegs == 2
\* the number of calls made on one response in the specification of the
\* response methods
MaxCalls == 3
\* requests in flight at once
MaxFlights == 2

(***************************************************************************)
(* Strings.                                                                *)
(***************************************************************************)
\* /\w/ of the regular expressions in matchRoute and extractParams
WordChars == {"a", "b", "i", "j", "u", "x", "1", "2"}

Last(s) == s[Len(s)]

\* String.prototype.startsWith
StartsWith(s, p) ==
    /\ Len(p) <= Len(s)
    /\ SubSeq(s, 1, Len(p)) = p

\* String.prototype.endsWith, for a one-character suffix
EndsWithSlash(s) == Len(s) > 0 /\ Last(s) = "/"

\* String.prototype.includes(':')
IncludesColon(s) == \E i \in 1..Len(s) : s[i] = ":"

\* s.replace(/\/+$/, ''): every trailing slash is removed
RECURSIVE StripTrailingSlashes(_)
StripTrailingSlashes(s) ==
    IF EndsWithSlash(s) THEN StripTrailingSlashes(SubSeq(s, 1, Len(s) - 1)) ELSE s

\* s.split('/').filter(Boolean): the non-empty pieces between slashes
RECURSIVE SplitFrom(_, _, _)
SplitFrom(s, i, cur) ==
    IF i > Len(s)
    THEN IF cur = <<>> THEN <<>> ELSE <<cur>>
    ELSE IF s[i] = "/"
         THEN (IF cur = <<>> THEN <<>> ELSE <<cur>>) \o SplitFrom(s, i + 1, <<>>)
         ELSE SplitFrom(s, i + 1, Append(cur, s[i]))

Segments(s) == SplitFrom(s, 1, <<>>)

(***************************************************************************)
(* Application.matchRoute / extractParams: the route path is compiled to a *)
(* regular expression.  A compiled expression is a sequence of tokens:     *)
(* [t |-> "lit", c |-> char] matches that character, [t |-> "grp"] is the  *)
(* capture group ([^/]+).                                                  *)
(***************************************************************************)
\* length of the longest run of \w characters of s starting at position i
RECURSIVE WordRun(_, _)
WordRun(s, i) ==
    IF i <= Len(s) /\ s[i] \in WordChars THEN 1 + WordRun(s, i + 1) ELSE 0

\* .replace(/:(\w+)/g, '([^/]+)') ; the escaping of '/' changes no meaning
RECURSIVE CompileFrom(_, _)
CompileFrom(s, i) ==
    IF i > Len(s) THEN <<>>
    ELSE IF s[i] = ":" /\ WordRun(s, i + 1) > 0
         THEN <<[t |-> "grp"]>> \o CompileFrom(s, i + 1 + WordRun(s, i + 1))
         ELSE <<[t |-> "lit", c |-> s[i]]>> \o CompileFrom(s, i + 1)

CompilePattern(routePath) == CompileFrom(StripTrailingSlashes(routePath), 1)

\* (routePath.match(/:\w+/g) || []).map(param => param.substring(1))
RECURSIVE ParamNamesFrom(_, _)
ParamNamesFrom(s, i) ==
    IF i > Len(s) THEN <<>>
    ELSE IF s[i] = ":" /\ WordRun(s, i + 1) > 0
         THEN <<SubSeq(s, i + 1, i + WordRun(s, i + 1))>>
                 \o ParamNamesFrom(s, i + 1 + WordRun(s, i + 1))
         ELSE ParamNamesFrom(s, i + 1)

ParamNames(routePath) == ParamNamesFrom(routePath, 1)

NoMatch == [matched |-> FALSE, caps |-> <<>>]

\* length of the longest run of non-'/' characters of s starting at position i
RECURSIVE NonSlashRun(_, _)
NonSlashRun(s, i) ==
    IF i <= Len(s) /\ s[i] # "/" THEN 1 + NonSlashRun(s, i + 1) ELSE 0

\* Backtracking match of tokens[ti..] against s[si..] anchored at the end of
\* s ('^...$'); a group is greedy: the longest capture is tried first.
RECURSIVE RegexFrom(_, _, _, _), GroupTry(_, _, _, _, _)
RegexFrom(tokens, ti, s, si) ==
    IF ti > Len(tokens)
    THEN IF si > Len(s) THEN [matched |-> TRUE, caps |-> <<>>] ELSE NoMatch
    ELSE IF tokens[ti].t = "lit"
         THEN IF si <= Len(s) /\ s[si] = tokens[ti].c
              THEN RegexFrom(tokens, ti + 1, s, si + 1)
              ELSE NoMatch
         ELSE GroupTry(tokens, ti, s, si, NonSlashRun(s, si))

GroupTry(tokens, ti, s, si, k) ==
    IF k < 1 THEN NoMatch
    ELSE LET rest == RegexFrom(tokens, ti + 1, s, si + k)
         IN IF rest.matched
            THEN [matched |-> TRUE,
                  caps |-> <<SubSeq(s, si, si + k - 1)>> \o rest.caps]
            ELSE GroupTry(tokens, ti, s, si, k - 1)

\* new RegExp(`^${pattern}$`) applied to urlPath
RegexExec(routePath, urlPath) == RegexFrom(CompilePattern(routePath), 1, urlPath, 1)

\* Application.matchRoute
matchRoute(routePath, urlPath) ==
    IF routePath = <<"/">>
    THEN urlPath = <<"/">> \/ urlPath = <<>>
    ELSE RegexExec(routePath, urlPath).matched

\* params[name] = value for each capture in order: a later capture of the
\* same name overwrites an earlier one
RECURSIVE AssignParams(_, _, _, _)
AssignParams(params, names, values, i) ==
    IF i > Len(values) THEN params
    ELSE AssignParams(
             [n \in (DOMAIN params) \cup {names[i]} |->
                 IF n = names[i] THEN values[i] ELSE params[n]],
             names, values, i + 1)

EmptyParams == [n \in {} |-> <<>>]

\* (a variant that hands the captures out to the names in reverse order)
extractParamsReversed(routePath, urlPath) ==
    LET m == RegexExec(routePath, urlPath)
        rev == [k \in 1..Len(m.caps) |-> m.caps[Len(m.caps) + 1 - k]]
    IN IF m.matched
       THEN AssignParams(EmptyParams, ParamNames(routePath), rev, 1)
       ELSE EmptyParams

\* Application.extractParams
extractParams(routePath, urlPath) ==
    LET m == RegexExec(routePath, urlPath)
    IN IF m.matched
       THEN AssignParams(EmptyParams, ParamNames(routePath), m.caps, 1)
       ELSE EmptyParams

(***************************************************************************)
(* Router.normalizePath / Router.matchRoute's per-route test.              *)
(***************************************************************************)
normalizePath(routePath) ==
    LET lead == IF StartsWith(routePath, <<"/">>) THEN routePath
                ELSE <<"/">> \o routePath
    IN IF Len(lead) > 1 /\ EndsWithSlash(lead)
       THEN SubSeq(lead, 1, Len(lead) - 1)
       ELSE lead

\* the segment walk: [matched, params]
RECURSIVE SegmentWalk(_, _, _, _)
SegmentWalk(rs, qs, i, params) ==
    IF i > Len(rs) THEN [matched |-> TRUE, params |-> params]
    ELSE IF StartsWith(rs[i], <<":">>)
         THEN LET name == SubSeq(rs[i], 2, Len(rs[i]))
              IN SegmentWalk(rs, qs, i + 1,
                     [n \in (DOMAIN params) \cup {name} |->
                         IF n = name THEN qs[i] ELSE params[n]])
         ELSE IF rs[i] # qs[i]
              THEN [matched |-> FALSE, params |-> EmptyParams]
              ELSE SegmentWalk(rs, qs, i + 1, params)

\* (a variant that strips the base path from the request path, when it is
\* there, and matches the rest against the route's own pattern)
routerMatchStripped(base, routePath, reqPath) ==
    LET c == normalizePath(reqPath)
        rest == IF StartsWith(c, base) THEN SubSeq(c, Len(base) + 1, Len(c)) ELSE c
        rs == Segments(normalizePath(routePath))
        qs == Segments(rest)
    IN IF Len(rs) # Len(qs)
       THEN [matched |-> FALSE, params |-> EmptyParams]
       ELSE SegmentWalk(rs, qs, 1, EmptyParams)

\* one iteration of the loop of Router.matchRoute, for a route of the
\* right method
routerMatchOne(base, routePath, reqPath) ==
    LET fullRoutePath == normalizePath(base \o routePath)
        normalizedReqPath == normalizePath(reqPath)
        rs == Segments(fullRoutePath)
        qs == Segments(normalizedReqPath)
    IN IF ~IncludesColon(routePath) /\ fullRoutePath = normalizedReqPath
       THEN [matched |-> TRUE, params |-> EmptyParams]
       ELSE IF Len(rs) # Len(qs)
            THEN [matched |-> FALSE, params |-> EmptyParams]
            ELSE SegmentWalk(rs, qs, 1, EmptyParams)

(***************************************************************************)
(* The inputs of the model: the methods, route paths, mount paths and      *)
(* request paths that registrations and requests are drawn from.           *)
(***************************************************************************)
Methods == {"GET", "POST"}

P_root == <<"/">>
P_u == <<"/", "u">>
P_u_i == <<"/", "u", "/", ":", "i">>
P_i == <<"/", ":", "i">>
P_u_1 == <<"/", "u", "/", "1">>
P_u_1s == <<"/", "u", "/", "1", "/">>
P_x == <<"/", "x">>

\* the route registrations made on the Application: app.get(path, h1),
\* app.get(path, h1, h2), app.post(path, h1); n is the number of handlers
AppRouteDefs ==
    { [method |-> "GET", path |-> P_u_i, n |-> 1],
      [method |-> "GET", path |-> P_u_i, n |-> 2],
      [method |-> "POST", path |-> P_u_i, n |-> 1] }
\* the route registrations made on the Router
RouterRouteDefs ==
    { [method |-> "GET", path |-> P_i, n |-> 1],
      [method |-> "POST", path |-> P_i, n |-> 1] }
\* methods of the requests
RequestMethods == {"GET"}
\* paths given to app.mount
MountPaths == {P_u}
\* pathnames of the requests
RequestPaths == {P_u_1, P_u_1s, P_u, P_x}

\* values passed to next(err) or thrown by handlers: all truthy
UserErrors == {"E"}
\* ERR_HTTP_HEADERS_SENT, thrown by setHeader once the headers are sent
HeadersSentError == "ERR_HTTP_HEADERS_SENT"
NoErr == "none"

(***************************************************************************)
(* State.                                                                  *)
(***************************************************************************)
VARIABLES
    phase,            \* "setup" until listen(), then "listening", then "serving"
    middlewares,      \* Application.middlewares
    routes,           \* Application.routes
    notFoundHandler,  \* Application.notFoundHandler: "default" or "custom"
    rMiddlewares,     \* Router.middlewares
    rRoutes,          \* Router._routes
    basePath,         \* Router.basePath
    req,              \* the request: method, url, params
    res,              \* the response: statusCode, headers, ended
    acts,             \* the closures of handleRequest / Router.handle: chain and cursor
    stack,            \* the call stack of handler invocations
    ctl,              \* what the running code does next
    tasks,            \* handler invocations suspended until a later callback
    crashed,          \* an exception left the dispatcher uncaught
    log,              \* what happened, in order
    mIn,              \* matcher inputs: base path, route path, request path
    mOut,             \* what a matcher returned for mIn
    sIn,              \* serveStatic on its own: its options and the request
    sRes,             \* the response handed to serveStatic
    sRun,             \* where serveStatic is, its calls of next and of fs
    nfCalls,          \* the handlers passed to setNotFoundHandler, in order
    past,             \* what an earlier request of the same kind came to
    flights,          \* requests in flight at once: each one's closure
    nest              \* a router mounted on a router mounted on the Application

config == <<middlewares, routes, notFoundHandler, rMiddlewares, rRoutes, basePath>>
match == <<mIn, mOut>>
static == <<sIn, sRes, sRun>>
extra == <<nfCalls, past, flights, nest>>
vars == <<phase, middlewares, routes, notFoundHandler, rMiddlewares, rRoutes,
          basePath, req, res, acts, stack, ctl, tasks, crashed, log, mIn, mOut,
          sIn, sRes, sRun, nfCalls, past, flights, nest>>

\* a handler function, named by where it was registered:
\*   "mw"  j    the j-th middleware of the Application
\*   "rh"  r j  the j-th handler of the Application's r-th route
\*   "rmw" j    the j-th middleware of the Router
\*   "rrh" r j  the j-th handler of the Router's r-th route
\*   "nf"       the handler given to setNotFoundHandler
H(k, r, j) == [k |-> k, r |-> r, j |-> j]

NoReq == [method |-> "", url |-> <<>>, params |-> EmptyParams]
\* a fresh http.ServerResponse
FreshRes == [statusCode |-> 200, headersSent |-> FALSE, ended |-> FALSE,
             contentType |-> "", body |-> ""]
Idle == [op |-> "idle", act |-> 0, err |-> NoErr]
NoInput == [base |-> <<>>, pattern |-> <<>>, path |-> <<>>, method |-> ""]
NoResult == [matched |-> FALSE, params |-> EmptyParams]
NoOutput == [by |-> "", runs |-> 0, now |-> NoResult, before |-> NoResult]

\* serveStatic not in use
NoHeaders == [n \in {} |-> ""]
FreshStaticRes == [statusCode |-> 200, headers |-> NoHeaders, headersSent |-> FALSE,
                   ended |-> FALSE, body |-> ""]
NoStaticIn == [method |-> "", url |-> <<>>, index |-> [off |-> TRUE, name |-> <<>>],
               dotfiles |-> "ignore", maxAge |-> 0]
StaticStart == [pc |-> "start", nexts |-> <<>>, fs |-> <<>>, stat |-> "",
                indexStat |-> "", streamError |-> ""]
NoStatic ==
    /\ sIn = NoStaticIn
    /\ sRes = FreshStaticRes
    /\ sRun = [StaticStart EXCEPT !.pc = "off"]

\* two new Routers R1 and R2, neither mounted: base paths, routes, whether
\* R1 is mounted on the Application (at path q) and R2 on R1, the request
\* dispatched and the handlers it invoked
NoNest == [b1 |-> <<>>, b2 |-> <<>>, r1 |-> <<>>, r2 |-> <<>>,
           onApp |-> FALSE, q |-> <<>>, onR1 |-> FALSE,
           req |-> [method |-> "", url |-> <<>>], calls |-> <<>>]

\* the state of a new Application and a new Router, no request received
Fresh ==
    /\ middlewares = <<>>
    /\ routes = <<>>
    /\ notFoundHandler = "default"
    /\ rMiddlewares = <<>>
    /\ rRoutes = <<>>
    /\ basePath = <<>>
    /\ req = NoReq
    /\ res = FreshRes
    /\ acts = <<>>
    /\ stack = <<>>
    /\ ctl = Idle
    /\ tasks = {}
    /\ crashed = FALSE
    /\ log = <<>>
    /\ nfCalls = <<>>
    /\ past = <<>>
    /\ flights = <<>>
    /\ nest = NoNest

Init ==
    /\ phase = "setup"
    /\ Fresh
    /\ mIn = NoInput
    /\ mOut = NoOutput
    /\ NoStatic

runtime == <<req, res, acts, stack, ctl, tasks, crashed, log>>

\* the number of registration calls made so far
Registrations ==
    Len(middlewares) + Len(routes) + Len(rMiddlewares) + Len(rRoutes)
        + Len(nfCalls)

RegisteringWithin(max) == phase = "setup" /\ Registrations < max

Registering == RegisteringWithin(MaxRegistrations)

(***************************************************************************)
(* Registration (Application.use/get/post/mount/setNotFoundHandler,        *)
(* Router.use/get/post/setBasePath).                                       *)
(***************************************************************************)
FnMiddleware == [kind |-> "fn", path |-> <<>>]

\* Application.use(middleware): this.middlewares.push(middleware), whatever
\* the parameters the function declares ("fn": (req, res, next); "errfn":
\* (err, req, res, next))
UseOf(kinds) ==
    /\ Registering
    /\ \E k \in kinds : middlewares' = Append(middlewares, [kind |-> k, path |-> <<>>])
    /\ UNCHANGED <<phase, routes, notFoundHandler, rMiddlewares, rRoutes, basePath, runtime>>
    /\ UNCHANGED <<match, static, extra>>

Use == UseOf({"fn"})

\* Application.get / post: this.routes.push({ method, path, handlers })
AddRouteWithin(defs, max) ==
    /\ RegisteringWithin(max)
    /\ \E d \in defs : routes' = Append(routes, d)
    /\ UNCHANGED <<phase, middlewares, notFoundHandler, rMiddlewares, rRoutes, basePath, runtime>>
    /\ UNCHANGED <<match, static, extra>>

AddRoute == AddRouteWithin(AppRouteDefs, MaxRegistrations)

\* Router.use
RouterUse ==
    /\ Registering
    /\ rMiddlewares' = Append(rMiddlewares, FnMiddleware)
    /\ UNCHANGED <<phase, middlewares, routes, notFoundHandler, rRoutes, basePath, runtime>>
    /\ UNCHANGED <<match, static, extra>>

\* Router.get / post -> addRoute, the registration drawn from defs
RouterAddRouteWithin(defs, max) ==
    /\ RegisteringWithin(max)
    /\ \E d \in defs : rRoutes' = Append(rRoutes, d)
    /\ UNCHANGED <<phase, middlewares, routes, notFoundHandler, rMiddlewares, basePath, runtime>>
    /\ UNCHANGED <<match, static, extra>>

RouterAddRouteOf(defs) == RouterAddRouteWithin(defs, MaxRegistrations)

RouterAddRoute == RouterAddRouteOf(RouterRouteDefs)

\* the path Application.mount keeps in the closure of its middleware
MountNormalizedPath(path) ==
    IF StartsWith(path, <<"/">>) THEN path ELSE <<"/">> \o path

\* Application.mount: router.setBasePath(normalizedPath) and this.use(closure),
\* the path drawn from paths
MountWithin(paths, max) ==
    /\ RegisteringWithin(max)
    /\ \E p \in paths :
          /\ basePath' = normalizePath(MountNormalizedPath(p))
          /\ middlewares' = Append(middlewares,
                                [kind |-> "mount", path |-> MountNormalizedPath(p)])
    /\ UNCHANGED <<phase, routes, notFoundHandler, rMiddlewares, rRoutes, runtime>>
    /\ UNCHANGED <<match, static, extra>>

MountAt(paths) == MountWithin(paths, MaxRegistrations)

Mount == MountAt(MountPaths)

\* (a variant in which the first handler registered stays)
KeepFirstNotFoundHandler(current, handler) ==
    IF current = "default" THEN handler ELSE current

\* this.notFoundHandler = handler
AssignNotFoundHandler(current, handler) == handler

\* Application.setNotFoundHandler(handler), the handler drawn from handlers
SetNotFoundHandlerOf(handlers) ==
    /\ Registering
    /\ \E h \in handlers :
          /\ notFoundHandler' = AssignNotFoundHandler(notFoundHandler, h)
          /\ nfCalls' = Append(nfCalls, h)
    /\ UNCHANGED <<phase, middlewares, routes, rMiddlewares, rRoutes, basePath, runtime>>
    /\ UNCHANGED <<match, static, past, flights, nest>>

\* one custom handler, set once
SetNotFoundHandler ==
    /\ notFoundHandler = "default"
    /\ SetNotFoundHandlerOf({"custom"})

\* Application.listen
Listen ==
    /\ phase = "setup"
    /\ phase' = "listening"
    /\ UNCHANGED <<config, runtime>>
    /\ UNCHANGED <<match, static, extra>>

(***************************************************************************)
(* Application.handleRequest.                                              *)
(***************************************************************************)
\* this.routes.find(r => r.method === req.method && this.matchRoute(r.path, url.pathname)):
\* the index of the first such route, 0 when there is none
RECURSIVE FindRouteFrom(_, _, _, _)
FindRouteFrom(rts, method, pathname, i) ==
    IF i > Len(rts) THEN 0
    ELSE IF rts[i].method = method /\ matchRoute(rts[i].path, pathname) THEN i
         ELSE FindRouteFrom(rts, method, pathname, i + 1)

\* (a variant that selects the last matching route instead of the first)
FindRouteLast(rts, method, pathname) ==
    LET hits == {i \in 1..Len(rts) :
                    rts[i].method = method /\ matchRoute(rts[i].path, pathname)}
    IN IF hits = {} THEN 0 ELSE CHOOSE i \in hits : \A j \in hits : j <= i

FindRoute(rts, method, pathname) == FindRouteFrom(rts, method, pathname, 1)

\* (a variant that places the route's handlers before the middlewares)
AssembleChainRouteFirst(mws, rts, r) ==
    (IF r = 0 THEN <<>> ELSE [j \in 1..rts[r].n |-> H("rh", r, j)])
        \o [j \in 1..Len(mws) |-> H("mw", 0, j)]

\* (a variant that lets the route's first handler run before the
\* middlewares)
AssembleChainInterleaved(mws, rts, r) ==
    IF r = 0 THEN [j \in 1..Len(mws) |-> H("mw", 0, j)]
    ELSE <<H("rh", r, 1)>> \o [j \in 1..Len(mws) |-> H("mw", 0, j)]
            \o [j \in 1..(rts[r].n - 1) |-> H("rh", r, j + 1)]

\* const chain = [...this.middlewares]; route.handlers.forEach(h => chain.push(h))
AssembleChain(mws, rts, r) ==
    [j \in 1..Len(mws) |-> H("mw", 0, j)]
        \o (IF r = 0 THEN <<>> ELSE [j \in 1..rts[r].n |-> H("rh", r, j)])

Event(e, h, x) == [e |-> e, h |-> h, x |-> x]
NoH == H("", 0, 0)

\* handleRequest up to its call next(), the request's pathname drawn from
\* paths
HandleRequestOf(paths) ==
    /\ phase = "listening"
    /\ \E m \in RequestMethods, u \in paths :
          LET r == FindRoute(routes, m, u)
          IN /\ req' = [method |-> m, url |-> u,
                        params |-> IF r = 0 THEN EmptyParams
                                   ELSE extractParams(routes[r].path, u)]
             /\ acts' = <<[kind |-> "app", chain |-> AssembleChain(middlewares, routes, r),
                           index |-> 0, hasRoute |-> r # 0, done |-> 0]>>
    /\ phase' = "serving"
    /\ res' = FreshRes
    /\ ctl' = [op |-> "next", act |-> 1, err |-> NoErr]
    /\ UNCHANGED <<config, stack, tasks, crashed, log>>
    /\ UNCHANGED <<match, static, extra>>

HandleRequest == HandleRequestOf(RequestPaths)

\* (variants: one that looks at writableEnded only, one that takes every
\* response for ended)
writableEndedOnly(response) == response.ended
alwaysEnded(response) == TRUE

\* const isResponseEnded = () => response.writableEnded || response.headersSent
isResponseEnded(response) == response.ended \/ response.headersSent

\* response.send(body) / response.json(data) on a response whose headers are
\* not sent yet: setHeader('Content-Type', ...) and end(body)
Sent(response, type, body) ==
    [response EXCEPT !.headersSent = TRUE, !.ended = TRUE,
                     !.contentType = type, !.body = body]

Frame(h, a) == [h |-> h, act |-> a, ops |-> 0, detached |-> FALSE]
Push(st, f) == <<f>> \o st
Top(st) == Head(st)
Pop(st) == Tail(st)

IsMountEntry(h) == h.k = "mw" /\ middlewares[h.j].kind = "mount"

\* where control goes when a call made from the top of stack st returns: the
\* closure installed by mount does nothing after router.handle or next
\* returns, so it returns to its own caller
RECURSIVE ReturnInto(_)
ReturnInto(st) ==
    IF st = <<>> THEN <<>>
    ELSE IF IsMountEntry(Top(st).h) THEN ReturnInto(Pop(st))
         ELSE st

CtlAfterReturn(st) ==
    IF ReturnInto(st) = <<>> THEN Idle ELSE [op |-> "run", act |-> 0, err |-> NoErr]

\* Application.handleError: res.status(500).send('Internal Server Error');
\* setHeader throws ERR_HTTP_HEADERS_SENT when the headers are already sent
handleErrorRes(response) ==
    IF response.headersSent
    THEN [response EXCEPT !.statusCode = 500]
    ELSE Sent([response EXCEPT !.statusCode = 500], "text/html", "Internal Server Error")

handleErrorThrows(response) == response.headersSent

\* the body of "next" of handleRequest, called with err
\* (a variant that passes over one entry)
AdvanceByTwo(index) == index + 2

\* (a variant whose cursor stays on the second entry)
AdvanceStays(index) == IF index >= 2 THEN index ELSE index + 1

\* index++
Advance(index) == index + 1

AppNext(a, err) ==
    LET A == acts[a]
        i == Advance(A.index)
    IN IF err # NoErr
       THEN \* return this.handleError(err, request, response)
            /\ log' = Append(log, Event("handleError", NoH, err))
            /\ res' = handleErrorRes(res)
            /\ IF handleErrorThrows(res)
               THEN /\ ctl' = [op |-> "throw", act |-> 0, err |-> HeadersSentError]
                    /\ stack' = stack
               ELSE /\ ctl' = CtlAfterReturn(stack)
                    /\ stack' = ReturnInto(stack)
            /\ UNCHANGED acts
       ELSE \* const middleware = chain[index++]
            /\ acts' = [acts EXCEPT ![a].index = i]
            /\ IF i <= Len(A.chain)
               THEN \* try { middleware(request, response, next) }
                    /\ stack' = Push(stack, Frame(A.chain[i], a))
                    /\ log' = Append(log, Event("call", A.chain[i], a))
                    /\ ctl' = [op |-> IF IsMountEntry(A.chain[i]) THEN "mount" ELSE "run",
                               act |-> 0, err |-> NoErr]
                    /\ res' = res
               ELSE IF ~A.hasRoute /\ ~isResponseEnded(res)
                    THEN \* this.notFoundHandler(request, response, () => {})
                         /\ ctl' = [op |-> "notFound", act |-> a, err |-> NoErr]
                         /\ UNCHANGED <<stack, log, res>>
                    ELSE /\ ctl' = CtlAfterReturn(stack)
                         /\ stack' = ReturnInto(stack)
                         /\ UNCHANGED <<log, res>>

\* the body of "next" of Router.handle, called with err
RouterNext(a, err) ==
    LET A == acts[a]
    IN IF err # NoErr \/ A.index >= Len(A.chain)
       THEN \* return done(err)
            /\ ctl' = [op |-> "next", act |-> A.done, err |-> err]
            /\ UNCHANGED <<acts, stack, log, res>>
       ELSE \* const handler = handlers[index++]; try { handler(req, res, next) }
            /\ acts' = [acts EXCEPT ![a].index = A.index + 1]
            /\ stack' = Push(stack, Frame(A.chain[A.index + 1], a))
            /\ log' = Append(log, Event("call", A.chain[A.index + 1], a))
            /\ ctl' = [op |-> "run", act |-> 0, err |-> NoErr]
            /\ res' = res

\* a call of next(err): of handleRequest's or of Router.handle's
Next_ ==
    /\ ctl.op = "next"
    /\ IF acts[ctl.act].kind = "app"
       THEN AppNext(ctl.act, ctl.err)
       ELSE RouterNext(ctl.act, ctl.err)
    /\ UNCHANGED <<phase, config, req, tasks, crashed>>
    /\ UNCHANGED <<match, static, extra>>

\* the not-found handler runs: the default one is
\* res.status(404).send('Not Found'), a custom one is application code
InvokeNotFound ==
    /\ ctl.op = "notFound"
    /\ log' = Append(log, Event("notFound", NoH, notFoundHandler))
    /\ IF notFoundHandler = "default"
       THEN /\ res' = IF res.headersSent
                      THEN [res EXCEPT !.statusCode = 404]
                      ELSE Sent([res EXCEPT !.statusCode = 404], "text/html", "Not Found")
            /\ IF res.headersSent
               THEN ctl' = [op |-> "throw", act |-> 0, err |-> HeadersSentError]
                    /\ stack' = stack
               ELSE ctl' = CtlAfterReturn(stack) /\ stack' = ReturnInto(stack)
       ELSE /\ stack' = Push(stack, Frame(H("nf", 0, 0), ctl.act))
            /\ ctl' = [op |-> "run", act |-> 0, err |-> NoErr]
            /\ res' = res
    /\ UNCHANGED <<phase, config, req, acts, tasks, crashed>>
    /\ UNCHANGED <<match, static, extra>>

(***************************************************************************)
(* Router.matchRoute and Router.handle, and the middleware that            *)
(* Application.mount installs.                                             *)
(***************************************************************************)
\* Router.matchRoute: the index of the first route of the right method that
\* matches, 0 for null
RECURSIVE RouterFindFrom(_, _, _, _, _)
RouterFindFrom(rts, base, reqMethod, reqPath, i) ==
    IF i > Len(rts) THEN 0
    ELSE IF rts[i].method = reqMethod
            /\ routerMatchOne(base, rts[i].path, reqPath).matched
         THEN i
         ELSE RouterFindFrom(rts, base, reqMethod, reqPath, i + 1)

RouterFind(rts, base, reqMethod, reqPath) ==
    RouterFindFrom(rts, base, reqMethod, reqPath, 1)

\* req.params = { ...req.params, ...match.params }
\* (a variant that keeps the router's bindings only)
RouterParamsOnly(old, new) == new

MergeParams(old, new) ==
    [n \in (DOMAIN old) \cup (DOMAIN new) |->
        IF n \in DOMAIN new THEN new[n] ELSE old[n]]

\* const handlers = [...this.middlewares, ...match.route.handlers]
RouterChain(mws, rts, r) ==
    [j \in 1..Len(mws) |-> H("rmw", 0, j)] \o [j \in 1..rts[r].n |-> H("rrh", r, j)]

\* the prefix test of the middleware installed by Application.mount
MountDelegates(pathname, normalizedPath) == StartsWith(pathname, normalizedPath)

\* the prefix test at the head of Router.handle
HandlePassesPrefix(base, reqPath) ==
    base = <<"/">> \/ StartsWith(normalizePath(reqPath), base)

\* (a variant in which the router answers a miss with the not-found terminal)
RouterMissNotFound(host) == [op |-> "notFound", act |-> host, err |-> NoErr]

\* what Router.handle does when matchRoute returns null: return done()
RouterMiss(host) == [op |-> "next", act |-> host, err |-> NoErr]

\* Router.handle(req, res, done), done being the "next" of closure host
RouterHandle(host) ==
    LET r == RouterFind(rRoutes, basePath, req.method, req.url)
    IN IF ~HandlePassesPrefix(basePath, req.url)
       THEN /\ ctl' = [op |-> "next", act |-> host, err |-> NoErr]
            /\ UNCHANGED <<req, acts>>
       ELSE IF r = 0
            THEN /\ ctl' = RouterMiss(host)
                 /\ UNCHANGED <<req, acts>>
            ELSE /\ req' = [req EXCEPT !.params =
                               MergeParams(req.params,
                                   routerMatchOne(basePath, rRoutes[r].path, req.url).params)]
                 /\ acts' = Append(acts, [kind |-> "router",
                                          chain |-> RouterChain(rMiddlewares, rRoutes, r),
                                          index |-> 0, hasRoute |-> TRUE, done |-> host])
                 /\ ctl' = [op |-> "next", act |-> Len(acts) + 1, err |-> NoErr]

\* the middleware installed by Application.mount runs
MountedMiddleware ==
    /\ ctl.op = "mount"
    /\ LET f == Top(stack)
       IN IF MountDelegates(req.url, middlewares[f.h.j].path)
          THEN RouterHandle(f.act)
          ELSE /\ ctl' = [op |-> "next", act |-> f.act, err |-> NoErr]
               /\ UNCHANGED <<req, acts>>
    /\ UNCHANGED <<phase, config, res, stack, tasks, crashed, log>>
    /\ UNCHANGED <<match, static, extra>>

(***************************************************************************)
(* Exceptions.                                                             *)
(***************************************************************************)
\* An exception leaves the function on top of the stack.  A handler invoked
\* by "next" was called inside its try block: catch (err) { next(err) }.
\* The not-found handler is called outside the try block, and a handler
\* resumed from a callback has no dispatcher frame under it.
Propagate ==
    /\ ctl.op = "throw"
    /\ IF stack = <<>>
       THEN /\ crashed' = TRUE
            /\ ctl' = Idle
            /\ stack' = stack
       ELSE LET f == Top(stack)
            IN /\ stack' = Pop(stack)
               /\ IF f.detached
                  THEN crashed' = TRUE /\ ctl' = Idle
                  ELSE IF f.h.k = "nf"
                       THEN crashed' = crashed /\ ctl' = ctl
                       ELSE /\ crashed' = crashed
                            /\ ctl' = [op |-> "next", act |-> f.act, err |-> ctl.err]
    /\ UNCHANGED <<phase, config, req, res, acts, tasks, log>>
    /\ UNCHANGED <<match, static, extra>>

(***************************************************************************)
(* What a handler (application code) does when it runs: any sequence of    *)
(* the operations below, then it returns.                                  *)
(***************************************************************************)
Running ==
    /\ ctl.op = "run"
    /\ ~crashed
    /\ stack # <<>>

\* the handler operations performed so far
OpsDone ==
    Cardinality({i \in 1..Len(log) :
                    log[i].e \in {"next", "send", "write", "throw", "defer"}})

CanAct == Running /\ OpsDone < MaxOps

Acted(st) == <<[Top(st) EXCEPT !.ops = @ + 1]>> \o Pop(st)

\* (a variant in which next has an effect only as the first thing the
\* handler does)
nextGuarded(f, c, e) ==
    IF f.h.k = "nf" \/ f.ops > 0
    THEN c
    ELSE [op |-> "next", act |-> f.act, err |-> e]

\* what the next given to the handler of frame f does when called with e:
\* the not-found handler's is () => {}, a chain entry's is the dispatcher's
\* next, which does not look at whether it was called before
nextGiven(f, c, e) ==
    IF f.h.k = "nf"
    THEN c
    ELSE [op |-> "next", act |-> f.act, err |-> e]

\* the handler calls next() or next(err), when it can
HandlerCallsNextIf(can) ==
    /\ can
    /\ \E e \in {NoErr} \cup UserErrors :
          /\ log' = Append(log, Event("next", Top(stack).h, e))
          /\ ctl' = nextGiven(Top(stack), ctl, e)
    /\ stack' = Acted(stack)
    /\ UNCHANGED <<phase, config, req, res, acts, tasks, crashed>>
    /\ UNCHANGED <<match, static, extra>>

HandlerCallsNext == HandlerCallsNextIf(CanAct)

\* the handler calls res.status(200).send(body), when it can
HandlerSendsIf(can) ==
    /\ can
    /\ log' = Append(log, Event("send", Top(stack).h, NoErr))
    /\ stack' = Acted(stack)
    /\ IF res.headersSent
       THEN /\ ctl' = [op |-> "throw", act |-> 0, err |-> HeadersSentError]
            /\ res' = res
       ELSE /\ ctl' = ctl
            /\ res' = Sent(res, "text/html", "OK")
    /\ UNCHANGED <<phase, config, req, acts, tasks, crashed>>
    /\ UNCHANGED <<match, static, extra>>

HandlerSends == HandlerSendsIf(CanAct)

\* the handler writes the head or part of the body without ending the response
HandlerWrites ==
    /\ CanAct
    /\ ~res.headersSent
    /\ log' = Append(log, Event("write", Top(stack).h, NoErr))
    /\ stack' = Acted(stack)
    /\ res' = [res EXCEPT !.headersSent = TRUE]
    /\ UNCHANGED <<phase, config, req, acts, ctl, tasks, crashed>>
    /\ UNCHANGED <<match, static, extra>>

\* the handler throws
HandlerThrows ==
    /\ CanAct
    /\ \E e \in UserErrors :
          /\ log' = Append(log, Event("throw", Top(stack).h, e))
          /\ ctl' = [op |-> "throw", act |-> 0, err |-> e]
    /\ stack' = Acted(stack)
    /\ UNCHANGED <<phase, config, req, res, acts, tasks, crashed>>
    /\ UNCHANGED <<match, static, extra>>

\* the handler returns
HandlerReturns ==
    /\ Running
    /\ stack' = ReturnInto(Pop(stack))
    /\ ctl' = CtlAfterReturn(Pop(stack))
    /\ UNCHANGED <<phase, config, req, res, acts, tasks, crashed, log>>
    /\ UNCHANGED <<match, static, extra>>

\* (a variant in which the dispatcher goes on with the chain when a handler
\* returns to wait for a callback)
goesOnAfterDefer(st) == [op |-> "next", act |-> Top(st).act, err |-> NoErr]

\* try { middleware(request, response, next) }: nothing follows the call
\* when the handler returns to wait for a callback
afterDefer(st) ==
    IF ReturnInto(Pop(st)) = <<>> THEN Idle ELSE [op |-> "run", act |-> 0, err |-> NoErr]

\* the handler returns to its caller and goes on later, from a callback
\* (an await, a timer, an I/O callback); e names the event in the log
HandlerDefersAs(e) ==
    /\ Running
    /\ ~Top(stack).detached
    /\ tasks' = tasks \cup {[Top(stack) EXCEPT !.detached = TRUE]}
    /\ log' = Append(log, Event(e, Top(stack).h, NoErr))
    /\ stack' = ReturnInto(Pop(stack))
    /\ ctl' = afterDefer(stack)
    /\ UNCHANGED <<phase, config, req, res, acts, crashed>>
    /\ UNCHANGED <<match, static, extra>>

\* counted with the operations of the handlers
HandlerDefers == OpsDone < MaxOps /\ HandlerDefersAs("defer")

\* the event loop runs the callback of a suspended handler
Resume ==
    /\ ctl.op = "idle"
    /\ ~crashed
    /\ \E t \in tasks :
          /\ tasks' = tasks \ {t}
          /\ stack' = <<t>>
    /\ ctl' = [op |-> "run", act |-> 0, err |-> NoErr]
    /\ UNCHANGED <<phase, config, req, res, acts, crashed, log>>
    /\ UNCHANGED <<match, static, extra>>

Next ==
    \/ Use
    \/ AddRoute
    \/ RouterUse
    \/ RouterAddRoute
    \/ Mount
    \/ SetNotFoundHandler
    \/ Listen
    \/ HandleRequest
    \/ Next_
    \/ InvokeNotFound
    \/ MountedMiddleware
    \/ Propagate
    \/ HandlerCallsNext
    \/ HandlerSends
    \/ HandlerWrites
    \/ HandlerThrows
    \/ HandlerReturns
    \/ HandlerDefers
    \/ Resume

Spec == Init /\ [][Next]_vars

(***************************************************************************)
(* The matchers on their own: Application.matchRoute + extractParams as    *)
(* handleRequest uses them, and Router.matchRoute's test of one route,     *)
(* run on patterns and paths drawn from bounded sets.                      *)
(***************************************************************************)
PatternSegs == {<<"u">>, <<"a">>, <<":", "i">>, <<":", "j">>}
PathSegs == {<<"u">>, <<"1">>, <<"2">>}

RECURSIVE Join(_)
Join(ss) == IF ss = <<>> THEN <<>> ELSE <<"/">> \o Head(ss) \o Join(Tail(ss))

\* the path made of segments ss, with or without a trailing slash
PathOf(ss, trailing) ==
    IF ss = <<>> THEN <<"/">>
    ELSE Join(ss) \o (IF trailing THEN <<"/">> ELSE <<>>)

SegSeqs(S, lo) == UNION {[1..n -> S] : n \in lo..MaxSegs}

MatchPatterns == {PathOf(ss, t) : ss \in SegSeqs(PatternSegs, 0), t \in BOOLEAN}
MatchPaths == {PathOf(ss, t) : ss \in SegSeqs(PathSegs, 0), t \in BOOLEAN}
MatchBases == {<<>>, P_u}

InitMatch ==
    /\ phase = "matching"
    /\ Fresh
    /\ mIn \in [base : MatchBases, pattern : MatchPatterns, path : MatchPaths,
                 method : Methods]
    /\ mOut = NoOutput
    /\ NoStatic

Ran(by, result) ==
    [by |-> by, runs |-> mOut.runs + 1, now |-> result, before |-> mOut.now]

\* handleRequest: route found by matchRoute, then params = extractParams
MatchApplication ==
    /\ phase = "matching"
    /\ mIn.base = <<>>
    /\ mIn.method = "GET"
    /\ mOut.by \in {"", "app"}
    /\ mOut.runs < MaxRuns
    /\ mOut' = Ran("app",
                   IF matchRoute(mIn.pattern, mIn.path)
                   THEN [matched |-> TRUE,
                         params |-> extractParams(mIn.pattern, mIn.path)]
                   ELSE NoResult)
    /\ UNCHANGED <<phase, config, runtime, mIn, static, extra>>

\* Router.matchRoute(mIn.method, mIn.path) for a router with base path
\* mIn.base and the one route GET mIn.pattern
MatchRouter ==
    /\ phase = "matching"
    /\ mOut.by \in {"", "router"}
    /\ mOut.runs < MaxRuns
    /\ mOut' = Ran("router",
                   IF RouterFind(<<[method |-> "GET", path |-> mIn.pattern, n |-> 1]>>,
                                 mIn.base, mIn.method, mIn.path) = 0
                   THEN NoResult
                   ELSE routerMatchOne(mIn.base, mIn.pattern, mIn.path))
    /\ UNCHANGED <<phase, config, runtime, mIn, static, extra>>

NextMatch == MatchApplication \/ MatchRouter

SpecMatch == InitMatch /\ [][NextMatch]_vars

(***************************************************************************)
(* The two matchers side by side: the Application's (matchRoute,           *)
(* extractParams) and the Router's (matchRoute with an empty base path)    *)
(* run on the same pattern and path.  The inputs include a pattern segment *)
(* that mixes a literal with ':name' and paths with repeated slashes.      *)
(***************************************************************************)
AgreePatterns == MatchPatterns \cup {<<"/", "a", ":", "i">>}
AgreePaths ==
    MatchPaths \cup {<<"/", "a", "1">>, <<"/", "/", "u">>, <<"/", "u", "/", "/", "1">>}

InitAgree ==
    /\ phase = "matching"
    /\ Fresh
    /\ mIn \in [base : {<<>>}, pattern : AgreePatterns, path : AgreePaths,
                 method : {"GET"}]
    /\ mOut = NoOutput
    /\ NoStatic

\* the Application's matcher, then the Router's, on mIn: before holds the
\* Application's result and now the Router's
MatchBoth ==
    /\ phase = "matching"
    /\ mOut.by = ""
    /\ mOut' = [by |-> "both", runs |-> 2,
                before |-> IF matchRoute(mIn.pattern, mIn.path)
                           THEN [matched |-> TRUE,
                                 params |-> extractParams(mIn.pattern, mIn.path)]
                           ELSE NoResult,
                now |-> IF RouterFind(<<[method |-> "GET", path |-> mIn.pattern, n |-> 1]>>,
                                      mIn.base, mIn.method, mIn.path) = 0
                        THEN NoResult
                        ELSE routerMatchOne(mIn.base, mIn.pattern, mIn.path)]
    /\ UNCHANGED <<phase, config, runtime, mIn, static, extra>>

SpecAgree == InitAgree /\ [][MatchBoth]_vars

(***************************************************************************)
(* serveStatic (src/src/middleware.ts): the path it derives from the       *)
(* request (decodeURIComponent, path.normalize, path.join, path.basename,  *)
(* path.extname of a POSIX host) and the content type table.               *)
(***************************************************************************)
\* const MIME_TYPES
MIME_TYPES ==
    (<<".", "h", "t", "m", "l">> :> "text/html") @@
    (<<".", "j", "s">> :> "text/javascript") @@
    (<<".", "c", "s", "s">> :> "text/css") @@
    (<<".", "j", "s", "o", "n">> :> "application/json") @@
    (<<".", "p", "n", "g">> :> "image/png") @@
    (<<".", "j", "p", "g">> :> "image/jpeg") @@
    (<<".", "j", "p", "e", "g">> :> "image/jpeg") @@
    (<<".", "g", "i", "f">> :> "image/gif") @@
    (<<".", "s", "v", "g">> :> "image/svg+xml") @@
    (<<".", "i", "c", "o">> :> "image/x-icon") @@
    (<<".", "t", "x", "t">> :> "text/plain") @@
    (<<".", "p", "d", "f">> :> "application/pdf") @@
    (<<".", "w", "o", "f", "f">> :> "font/woff") @@
    (<<".", "w", "o", "f", "f", "2">> :> "font/woff2") @@
    (<<".", "t", "t", "f">> :> "font/ttf") @@
    (<<".", "e", "o", "t">> :> "font/eot") @@
    (<<".", "o", "t", "f">> :> "font/otf") @@
    (<<".", "m", "p", "4">> :> "video/mp4") @@
    (<<".", "w", "e", "b", "m">> :> "video/webm") @@
    (<<".", "m", "p", "3">> :> "audio/mpeg") @@
    (<<".", "w", "a", "v">> :> "audio/wav")

\* the escapes that occur in the request paths of the model: %2e and %2f
PercentTable ==
    (<<"2", "e">> :> ".") @@ (<<"2", "E">> :> ".") @@
    (<<"2", "f">> :> "/") @@ (<<"2", "F">> :> "/")

\* decodeURIComponent: [ok, out]; ok is FALSE when it throws URIError
RECURSIVE DecodeFrom(_, _)
DecodeFrom(s, i) ==
    IF i > Len(s) THEN [ok |-> TRUE, out |-> <<>>]
    ELSE IF s[i] # "%"
         THEN LET rest == DecodeFrom(s, i + 1)
              IN [ok |-> rest.ok, out |-> <<s[i]>> \o rest.out]
         ELSE IF i + 2 <= Len(s) /\ <<s[i + 1], s[i + 2]>> \in DOMAIN PercentTable
              THEN LET rest == DecodeFrom(s, i + 3)
                   IN [ok |-> rest.ok,
                       out |-> <<PercentTable[<<s[i + 1], s[i + 2]>>]>> \o rest.out]
              ELSE [ok |-> FALSE, out |-> <<>>]

decodeURIComponent(s) == DecodeFrom(s, 1)

DotDot == <<".", ".">>

\* normalizeString of path.posix: '.' and empty segments dropped, '..'
\* removes the segment before it, or stays when the path is relative and
\* nothing is left to remove
RECURSIVE normalizeString(_, _, _, _)
normalizeString(segs, i, acc, allowAboveRoot) ==
    IF i > Len(segs) THEN acc
    ELSE IF segs[i] = <<".">>
         THEN normalizeString(segs, i + 1, acc, allowAboveRoot)
         ELSE IF segs[i] = DotDot
              THEN IF acc # <<>> /\ Last(acc) # DotDot
                   THEN normalizeString(segs, i + 1, SubSeq(acc, 1, Len(acc) - 1),
                                        allowAboveRoot)
                   ELSE IF allowAboveRoot
                        THEN normalizeString(segs, i + 1, Append(acc, DotDot),
                                             allowAboveRoot)
                        ELSE normalizeString(segs, i + 1, acc, allowAboveRoot)
              ELSE normalizeString(segs, i + 1, Append(acc, segs[i]), allowAboveRoot)

\* path.normalize
pathNormalize(p) ==
    IF p = <<>> THEN <<".">>
    ELSE LET isAbsolute == p[1] = "/"
             trailingSeparator == Last(p) = "/"
             segs == normalizeString(Segments(p), 1, <<>>, ~isAbsolute)
         IN IF segs = <<>>
            THEN IF isAbsolute THEN <<"/">>
                 ELSE IF trailingSeparator THEN <<".", "/">> ELSE <<".">>
            ELSE (IF isAbsolute THEN <<"/">> ELSE <<>>)
                     \o Tail(Join(segs))
                     \o (IF trailingSeparator THEN <<"/">> ELSE <<>>)

\* path.join(a, b), a not empty
pathJoin(a, b) ==
    IF b = <<>> THEN pathNormalize(a) ELSE pathNormalize(a \o <<"/">> \o b)

\* path.basename
pathBasename(p) == IF Segments(p) = <<>> THEN <<>> ELSE Last(Segments(p))

\* path.extname: from the last '.' of the base name on, '' when there is
\* none or when it is the first character
pathExtname(p) ==
    LET b == pathBasename(p)
        dots == {k \in 1..Len(b) : b[k] = "."}
        k == CHOOSE k \in dots : \A l \in dots : l <= k
    IN IF dots = {} \/ k = 1 THEN <<>> ELSE SubSeq(b, k, Len(b))

\* String.toLowerCase, on the letters of the model
UpperCase == ("J" :> "j") @@ ("S" :> "s")
toLowerCase(s) ==
    [k \in 1..Len(s) |-> IF s[k] \in DOMAIN UpperCase THEN UpperCase[s[k]] ELSE s[k]]

\* String.includes('..')
IncludesDotDot(s) == \E k \in 1..(Len(s) - 1) : s[k] = "." /\ s[k + 1] = "."

(***************************************************************************)
(* serveStatic and serveFile, called with a fresh response; the results    *)
(* of fs.stat and the events of the file stream are chosen freely.         *)
(***************************************************************************)
\* const rootPath = path.resolve(root)
rootPath == <<"/", "r">>
IndexHtml == <<"i", "n", "d", "e", "x", ".", "h", "t", "m", "l">>

\* the segments request paths are made of: a directory or file name, file
\* names with a known extension, a dotfile, parent-directory segments plain
\* and percent-encoded, a name that contains two dots
UrlSegs ==
    { <<"d">>, <<"a", ".", "j", "s">>, <<"a", ".", "J", "S">>, <<".", "h">>,
      DotDot, <<"%", "2", "e", "%", "2", "e">>, <<"a", ".", ".", "b">> }

\* the path made of segments ss: with or without a leading slash, with or
\* without a trailing one
UrlOf(ss, leading, trailing) ==
    IF ss = <<>> THEN (IF leading THEN <<"/">> ELSE <<>>)
    ELSE (IF leading THEN <<"/">> ELSE <<>>) \o Tail(Join(ss))
             \o (IF trailing THEN <<"/">> ELSE <<>>)

StaticUrls ==
    {UrlOf(ss, l, t) :
        ss \in UNION {[1..n -> UrlSegs] : n \in 0..MaxUrlSegs}, l \in BOOLEAN, t \in BOOLEAN}

StaticMethods == {"GET", "HEAD", "POST"}
IndexOptions == {[off |-> TRUE, name |-> <<>>], [off |-> FALSE, name |-> IndexHtml]}
DotfilesOptions == {"allow", "deny", "ignore"}
MaxAgeOptions == {0 - 1, 0, 1}

\* what fs.stat can call back with: an error code, or the kind of the entry
StatErrors == {"ENOENT", "EACCES"}
StatKinds == {"dir", "file", "other"}
\* errors a file stream can emit
StreamErrors == {"EIO"}
InvalidFilePath == "Invalid file path"

InitStatic ==
    /\ phase = "static"
    /\ Fresh
    /\ mIn = NoInput
    /\ mOut = NoOutput
    /\ sIn \in [method : StaticMethods, url : StaticUrls, index : IndexOptions,
                dotfiles : DotfilesOptions, maxAge : MaxAgeOptions]
    /\ sRes = FreshStaticRes
    /\ sRun = StaticStart

\* res.setHeader(name, value)
SetHeader(response, name, value) ==
    [response EXCEPT !.headers =
        [n \in (DOMAIN @) \cup {name} |-> IF n = name THEN value ELSE @[n]]]

\* res.end(body)
Ended(response, body) ==
    [response EXCEPT !.headersSent = TRUE, !.ended = TRUE, !.body = body]

\* calling next(err) / fs.stat(path, cb) / fs.createReadStream(path)
CallNext(run, err) == [run EXCEPT !.nexts = Append(@, err)]
Access(run, op, path) == [run EXCEPT !.fs = Append(@, [op |-> op, path |-> path])]

\* (a variant that handles every method)
HandlesAnyMethod(method) == TRUE
\* if (req.method !== 'GET' && req.method !== 'HEAD') return next()
HandlesMethod(method) == method \in {"GET", "HEAD"}

\* let filePath = path.normalize(decodeURIComponent(pathname))
filePath(pathname) == pathNormalize(decodeURIComponent(pathname).out)

\* (a variant that rejects nothing)
NeverTraversal(fp) == FALSE
\* if (filePath.includes('..')) return next(new Error('Invalid file path'))
IsTraversal(fp) == IncludesDotDot(fp)

\* const absolutePath = path.join(rootPath, filePath), the leading slash of
\* filePath removed
absolutePath(pathname) ==
    LET fp == filePath(pathname)
    IN pathJoin(rootPath, IF StartsWith(fp, <<"/">>) THEN Tail(fp) ELSE fp)

\* (a variant that takes no name for a dotfile)
NoDotfile(fileName) == FALSE
\* fileName.startsWith('.')
IsDotfile(fileName) == StartsWith(fileName, <<".">>)

\* const indexPath = path.join(absolutePath, staticOptions.index)
indexPath(pathname) == pathJoin(absolutePath(pathname), sIn.index.name)

\* MIME_TYPES[ext] || 'application/octet-stream'
ContentTypeOf(path) ==
    LET ext == toLowerCase(pathExtname(path))
    IN IF ext \in DOMAIN MIME_TYPES THEN MIME_TYPES[ext] ELSE "application/octet-stream"

\* if (options.maxAge)
WantsCacheControl(maxAge) == maxAge # 0

\* serveFile up to its call of fs.stat (HEAD) or fs.createReadStream (GET)
ServeFileRes(path) ==
    LET r == SetHeader(sRes, "Content-Type", ContentTypeOf(path))
    IN IF WantsCacheControl(sIn.maxAge)
       THEN SetHeader(r, "Cache-Control", <<"public, max-age=", sIn.maxAge>>)
       ELSE r

\* (a variant that passes the request on as well)
ServeFileRunAndNext(run, path) ==
    IF sIn.method = "HEAD"
    THEN [run EXCEPT !.fs = Append(@, [op |-> "stat", path |-> path]),
                     !.nexts = Append(@, NoErr), !.pc = "headStat"]
    ELSE [run EXCEPT !.fs = Append(@, [op |-> "open", path |-> path]),
                     !.nexts = Append(@, NoErr), !.pc = "streaming"]

\* serveFile after the headers: fs.stat for HEAD, fs.createReadStream for GET
ServeFileRun(run, path) ==
    IF sIn.method = "HEAD"
    THEN [Access(run, "stat", path) EXCEPT !.pc = "headStat"]
    ELSE [Access(run, "open", path) EXCEPT !.pc = "streaming"]

\* the middleware returned by serveStatic, up to its first return
serveStatic ==
    /\ phase = "static"
    /\ sRun.pc = "start"
    /\ LET decoded == decodeURIComponent(sIn.url)
           abs == absolutePath(sIn.url)
           done == [sRun EXCEPT !.pc = "done"]
       IN IF ~HandlesMethod(sIn.method)
          THEN sRun' = CallNext(done, NoErr) /\ sRes' = sRes
          ELSE IF ~decoded.ok
          THEN \* decodeURIComponent throws URIError
               sRun' = [sRun EXCEPT !.pc = "threw"] /\ sRes' = sRes
          ELSE IF IsTraversal(filePath(sIn.url))
          THEN sRun' = CallNext(done, InvalidFilePath) /\ sRes' = sRes
          ELSE IF IsDotfile(pathBasename(abs)) /\ sIn.dotfiles = "deny"
          THEN \* res.status(403).send('Forbidden')
               /\ sRes' = Ended(SetHeader([sRes EXCEPT !.statusCode = 403],
                                          "Content-Type", "text/html"), "Forbidden")
               /\ sRun' = done
          ELSE IF IsDotfile(pathBasename(abs)) /\ sIn.dotfiles = "ignore"
          THEN sRun' = CallNext(done, NoErr) /\ sRes' = sRes
          ELSE \* fs.stat(absolutePath, ...)
               /\ sRun' = [Access(sRun, "stat", abs) EXCEPT !.pc = "stat"]
               /\ sRes' = sRes
    /\ UNCHANGED <<phase, config, runtime, match, extra, sIn>>

\* (a variant that passes every failure of stat on as an error)
StatFailureAlwaysError(code) == code
\* if (err.code === 'ENOENT') return next(); return next(err)
StatFailure(code) == IF code = "ENOENT" THEN NoErr ELSE code

\* (a variant that serves whatever the index path is)
IndexAlwaysServed(outcome) == TRUE
\* if (err || !indexStats.isFile()) return next()
IndexServed(outcome) == outcome = "file"

\* the callback of fs.stat(absolutePath, ...)
StatCallback ==
    /\ phase = "static"
    /\ sRun.pc = "stat"
    /\ \E outcome \in StatErrors \cup StatKinds :
          LET run == [sRun EXCEPT !.stat = outcome]
              done == [run EXCEPT !.pc = "done"]
          IN IF outcome \in StatErrors
             THEN sRun' = CallNext(done, StatFailure(outcome)) /\ sRes' = sRes
             ELSE IF outcome = "dir"
             THEN IF sIn.index.off
                  THEN sRun' = CallNext(done, NoErr) /\ sRes' = sRes
                  ELSE /\ sRun' = [Access(run, "stat", indexPath(sIn.url))
                                      EXCEPT !.pc = "indexStat"]
                       /\ sRes' = sRes
             ELSE IF outcome = "file"
             THEN /\ sRes' = ServeFileRes(absolutePath(sIn.url))
                  /\ sRun' = ServeFileRun(run, absolutePath(sIn.url))
             ELSE sRun' = CallNext(done, NoErr) /\ sRes' = sRes
    /\ UNCHANGED <<phase, config, runtime, match, extra, sIn>>

\* the callback of fs.stat(indexPath, ...)
IndexStatCallback ==
    /\ phase = "static"
    /\ sRun.pc = "indexStat"
    /\ \E outcome \in StatErrors \cup StatKinds :
          LET run == [sRun EXCEPT !.indexStat = outcome]
          IN IF IndexServed(outcome)
             THEN /\ sRes' = ServeFileRes(indexPath(sIn.url))
                  /\ sRun' = ServeFileRun(run, indexPath(sIn.url))
             ELSE /\ sRun' = CallNext([run EXCEPT !.pc = "done"], NoErr)
                  /\ sRes' = sRes
    /\ UNCHANGED <<phase, config, runtime, match, extra, sIn>>

\* serveFile for HEAD: the callback of fs.stat(filePath, ...)
HeadStatCallback ==
    /\ phase = "static"
    /\ sRun.pc = "headStat"
    /\ \/ \E err \in StatErrors :
             /\ sRun' = CallNext([sRun EXCEPT !.pc = "done"], err)
             /\ sRes' = sRes
       \/ /\ sRes' = Ended(SetHeader(sRes, "Content-Length", "stats.size"), "")
          /\ sRun' = [sRun EXCEPT !.pc = "done"]
    /\ UNCHANGED <<phase, config, runtime, match, extra, sIn>>

\* fileStream.pipe(res): a chunk of the file is written to the response
StreamData ==
    /\ phase = "static"
    /\ sRun.pc = "streaming"
    /\ ~sRes.headersSent
    /\ sRes' = [sRes EXCEPT !.headersSent = TRUE, !.body = "chunk"]
    /\ UNCHANGED <<phase, config, runtime, match, extra, sIn, sRun>>

\* fileStream.pipe(res): the file is read to its end and the response ended
StreamEnd ==
    /\ phase = "static"
    /\ sRun.pc = "streaming"
    /\ sRes' = Ended(sRes, "file")
    /\ sRun' = [sRun EXCEPT !.pc = "done"]
    /\ UNCHANGED <<phase, config, runtime, match, extra, sIn>>

\* (a variant that drops the error)
StreamErrorDropped(run, err) == run
\* fileStream.on('error', (err) => { next(err) })
OnStreamError(run, err) == CallNext(run, err)

\* the file stream emits 'error', at open or after chunks were written
StreamError ==
    /\ phase = "static"
    /\ sRun.pc = "streaming"
    /\ \E err \in StreamErrors :
          sRun' = OnStreamError([sRun EXCEPT !.pc = "done", !.streamError = err], err)
    /\ UNCHANGED <<phase, config, runtime, match, extra, sIn, sRes>>

NextStatic ==
    \/ serveStatic
    \/ StatCallback
    \/ IndexStatCallback
    \/ HeadStatCallback
    \/ StreamData
    \/ StreamEnd
    \/ StreamError

SpecStatic == InitStatic /\ [][NextStatic]_vars

(***************************************************************************)
(* Mounting on its own: app.mount(path, router) with paths written with    *)
(* and without leading and trailing slashes, router.get('/') among the     *)
(* router's routes, and the requests dispatched through the mounted        *)
(* router.                                                                 *)
(***************************************************************************)
\* paths given to app.mount: '/u', '/u/', 'u'
AnyMountPaths == {P_u, <<"/", "u", "/">>, <<"u">>}
\* router.get('/', h), router.get('/:i', h)
AnyRouterRouteDefs ==
    { [method |-> "GET", path |-> P_root, n |-> 1],
      [method |-> "GET", path |-> P_i, n |-> 1] }

MountAny == MountAt(AnyMountPaths)

RouterAddRouteAny == RouterAddRouteOf(AnyRouterRouteDefs)

NextMount ==
    \/ MountAny
    \/ RouterAddRouteAny
    \/ Listen
    \/ HandleRequest
    \/ Next_
    \/ InvokeNotFound
    \/ MountedMiddleware
    \/ Propagate
    \/ HandlerCallsNext
    \/ HandlerSends
    \/ HandlerReturns

SpecMount == Init /\ [][NextMount]_vars

(***************************************************************************)
(* Middlewares that declare four parameters (err, req, res, next), as the  *)
(* README registers them with app.use.                                     *)
(***************************************************************************)
UseAny == UseOf({"fn", "errfn"})

NextErrorMiddleware ==
    \/ UseAny
    \/ Listen
    \/ HandleRequest
    \/ Next_
    \/ InvokeNotFound
    \/ Propagate
    \/ HandlerCallsNext
    \/ HandlerSends
    \/ HandlerThrows
    \/ HandlerReturns

SpecErrorMiddleware == Init /\ [][NextErrorMiddleware]_vars

(***************************************************************************)
(* setNotFoundHandler called any number of times, with one handler or      *)
(* another.                                                                *)
(***************************************************************************)
SetNotFoundHandlerAny == SetNotFoundHandlerOf({"custom", "custom2"})

NextNotFound ==
    \/ SetNotFoundHandlerAny
    \/ Use
    \/ AddRoute
    \/ Listen
    \/ HandleRequest
    \/ Next_
    \/ InvokeNotFound
    \/ Propagate
    \/ HandlerCallsNext
    \/ HandlerSends
    \/ HandlerReturns

SpecNotFound == Init /\ [][NextNotFound]_vars

(***************************************************************************)
(* The response methods on their own (Application.enhanceResponse):        *)
(* status, send and json called one after another on one response.  The    *)
(* log keeps each call with what it came to: "this" when it returned the   *)
(* response, the error when it threw.                                      *)
(***************************************************************************)
StatusCodes == {201, 404, 500}
Bodies == {"OK"}

\* JSON.stringify of a string
JSONStringify(data) == "\"" \o data \o "\""

\* (a variant of status that also ends the response)
statusEnds(response, code) == [response EXCEPT !.statusCode = code, !.ended = TRUE]

\* response.status: this.statusCode = code
status(response, code) == [response EXCEPT !.statusCode = code]

\* response.send: this.setHeader('Content-Type', 'text/html'); this.end(body)
send(response, body) == Sent(response, "text/html", body)

\* response.json: this.setHeader('Content-Type', 'application/json');
\* this.end(JSON.stringify(data))
json(response, data) == Sent(response, "application/json", JSONStringify(data))

InitResponse ==
    /\ phase = "responding"
    /\ Fresh
    /\ mIn = NoInput
    /\ mOut = NoOutput
    /\ NoStatic

CallsLeft == phase = "responding" /\ Len(log) < MaxCalls

ResStatus ==
    /\ CallsLeft
    /\ \E code \in StatusCodes : res' = status(res, code)
    /\ log' = Append(log, Event("status", NoH, "this"))
    /\ UNCHANGED <<phase, config, req, acts, stack, ctl, tasks, crashed>>
    /\ UNCHANGED <<match, static, extra>>

\* a method that sets a header and ends the response: setHeader throws
\* ERR_HTTP_HEADERS_SENT once the headers are sent
SetsHeaderAndEnds(name, after) ==
    /\ CallsLeft
    /\ IF res.headersSent
       THEN /\ res' = res
            /\ log' = Append(log, Event(name, NoH, HeadersSentError))
       ELSE /\ res' = after
            /\ log' = Append(log, Event(name, NoH, "this"))
    /\ UNCHANGED <<phase, config, req, acts, stack, ctl, tasks, crashed>>
    /\ UNCHANGED <<match, static, extra>>

ResSend == \E body \in Bodies : SetsHeaderAndEnds("send", send(res, body))

ResJson == \E data \in Bodies : SetsHeaderAndEnds("json", json(res, data))

\* a handler writes the head without ending the response (res.writeHead)
ResWriteHead ==
    /\ CallsLeft
    /\ ~res.headersSent
    /\ res' = [res EXCEPT !.headersSent = TRUE]
    /\ log' = Append(log, Event("writeHead", NoH, "this"))
    /\ UNCHANGED <<phase, config, req, acts, stack, ctl, tasks, crashed>>
    /\ UNCHANGED <<match, static, extra>>

NextResponse == ResStatus \/ ResSend \/ ResJson \/ ResWriteHead

SpecResponse == InitResponse /\ [][NextResponse]_vars

(***************************************************************************)
(* Several requests in flight.  Every call of handleRequest has its own    *)
(* request and response and its own chain, index and next; every call of   *)
(* Router.handle has its own handlers, index and next.  The handlers here  *)
(* are asynchronous: invoked, they return at once and call next() or       *)
(* respond from a later callback, so that the callbacks of different       *)
(* requests interleave.                                                    *)
(***************************************************************************)
\* the closure that the "next" handed out for request f advances
\* (a variant in which chain and index are shared, the latest request's)
nextOfLatest(fs, f) == Len(fs)

\* const chain = ...; let index = 0; const next = ... inside handleRequest
nextOf(fs, f) == f

\* handleRequest's local state for one request, before its call next()
NewFlight(m, u) ==
    LET r == FindRoute(routes, m, u)
    IN [req |-> [method |-> m, url |-> u,
                 params |-> IF r = 0 THEN EmptyParams
                            ELSE extractParams(routes[r].path, u)],
        res |-> FreshRes,
        chain |-> AssembleChain(middlewares, routes, r),
        index |-> 0,
        hasRoute |-> r # 0,
        inner |-> <<>>,       \* the closure of Router.handle, while it is in use
        calls |-> <<>>,       \* the handlers invoked with this request, in order
        nexts |-> 0,          \* the calls of next() made by this request's handlers
        waiting |-> FALSE,    \* a handler was invoked and has not decided yet
        term |-> ""]          \* how the chain ended

\* Router.handle called by the middleware of mount finds a route for fl
FlightRouterRoute(fl, h) ==
    IF /\ MountDelegates(fl.req.url, middlewares[h.j].path)
       /\ HandlePassesPrefix(basePath, fl.req.url)
    THEN RouterFind(rRoutes, basePath, fl.req.method, fl.req.url)
    ELSE 0

\* "next" of handleRequest called without error for fl: up to the handler
\* it invokes that is not the middleware of mount passing the request on
RECURSIVE FlightAppNext(_)
FlightAppNext(fl) ==
    LET i == Advance(fl.index)
        at == [fl EXCEPT !.index = i]
    IN IF i > Len(fl.chain)
       THEN IF ~fl.hasRoute /\ ~isResponseEnded(fl.res)
            THEN [at EXCEPT !.term = "notFound",
                            !.res = Sent([fl.res EXCEPT !.statusCode = 404],
                                         "text/html", "Not Found")]
            ELSE [at EXCEPT !.term = "end"]
       ELSE LET h == fl.chain[i]
                called == [at EXCEPT !.calls = Append(@, h)]
            IN IF ~IsMountEntry(h)
               THEN [called EXCEPT !.waiting = TRUE]
               ELSE LET r == FlightRouterRoute(fl, h)
                    IN IF r = 0
                       THEN FlightAppNext(called)
                       ELSE LET handlers == RouterChain(rMiddlewares, rRoutes, r)
                            IN [called EXCEPT
                                  !.req.params =
                                      MergeParams(@, routerMatchOne(basePath,
                                                        rRoutes[r].path, fl.req.url).params),
                                  !.inner = <<[chain |-> handlers, index |-> 1]>>,
                                  !.calls = Append(@, handlers[1]),
                                  !.waiting = TRUE]

\* "next" of Router.handle called without error for fl
FlightRouterNext(fl) ==
    LET c == fl.inner[1]
    IN IF c.index >= Len(c.chain)
       THEN FlightAppNext([fl EXCEPT !.inner = <<>>])
       ELSE [fl EXCEPT !.inner = <<[c EXCEPT !.index = @ + 1]>>,
                       !.calls = Append(@, c.chain[c.index + 1]),
                       !.waiting = TRUE]

FlightNext(fl) ==
    IF fl.inner # <<>> THEN FlightRouterNext(fl) ELSE FlightAppNext(fl)

\* a request arrives: handleRequest, its call next() included
Arrive ==
    /\ phase = "listening"
    /\ Len(flights) < MaxFlights
    /\ \E m \in RequestMethods, u \in RequestPaths :
          flights' = Append(flights, FlightAppNext(NewFlight(m, u)))
    /\ UNCHANGED <<phase, config, runtime>>
    /\ UNCHANGED <<match, static, nfCalls, past, nest>>

\* a callback of the handler that request f waits for calls next()
FlightCallsNext ==
    /\ \E f \in 1..Len(flights) :
          /\ flights[f].waiting
          /\ LET held == [flights EXCEPT ![f].nexts = @ + 1, ![f].waiting = FALSE]
                 c == nextOf(flights, f)
             IN flights' = [held EXCEPT ![c] = FlightNext(held[c])]
    /\ UNCHANGED <<phase, config, runtime>>
    /\ UNCHANGED <<match, static, nfCalls, past, nest>>

\* a callback of the handler that request f waits for calls
\* res.status(200).send(body)
FlightSends ==
    /\ \E f \in 1..Len(flights) :
          /\ flights[f].waiting
          /\ flights' = [flights EXCEPT ![f].waiting = FALSE,
                                        ![f].res = Sent(@, "text/html", "OK")]
    /\ UNCHANGED <<phase, config, runtime>>
    /\ UNCHANGED <<match, static, nfCalls, past, nest>>

NextFlights ==
    \/ Use
    \/ AddRoute
    \/ Mount
    \/ RouterAddRoute
    \/ Listen
    \/ Arrive
    \/ FlightCallsNext
    \/ FlightSends

SpecFlights == Init /\ [][NextFlights]_vars

(***************************************************************************)
(* The same request served twice by the same Application, the handlers     *)
(* deciding the same (next(), next(err), respond) at other times: at once  *)
(* the first time, at once or from a later callback the second time.       *)
(***************************************************************************)
\* what handler h decided, in order, according to log lg
RECURSIVE DecisionsFrom(_, _, _)
DecisionsFrom(h, lg, i) ==
    IF i > Len(lg) THEN <<>>
    ELSE IF lg[i].h = h /\ lg[i].e \in {"next", "send"}
         THEN <<[e |-> lg[i].e, x |-> lg[i].x]>> \o DecisionsFrom(h, lg, i + 1)
         ELSE DecisionsFrom(h, lg, i + 1)

Decisions(h, lg) == DecisionsFrom(h, lg, 1)

HandlersIn(lg) == {lg[i].h : i \in 1..Len(lg)}

\* no handler has decided anything that it did not decide the first time
AsBefore ==
    past = <<>> \/ \A h \in HandlersIn(log) :
                      Len(Decisions(h, log)) <= Len(Decisions(h, past[1].log))
                      /\ Decisions(h, log)
                            = SubSeq(Decisions(h, past[1].log), 1, Len(Decisions(h, log)))

\* nothing is left to happen for the request
Finished ==
    /\ phase = "serving"
    /\ ctl.op = "idle"
    /\ tasks = {} \/ crashed

\* the same request arrives once more: handleRequest up to its call next()
Again ==
    /\ Finished
    /\ past = <<>>
    /\ past' = <<[log |-> log, res |-> res, crashed |-> crashed]>>
    /\ LET r == FindRoute(routes, req.method, req.url)
       IN /\ req' = [req EXCEPT !.params = IF r = 0 THEN EmptyParams
                                           ELSE extractParams(routes[r].path, req.url)]
          /\ acts' = <<[kind |-> "app", chain |-> AssembleChain(middlewares, routes, r),
                        index |-> 0, hasRoute |-> r # 0, done |-> 0]>>
    /\ res' = FreshRes
    /\ ctl' = [op |-> "next", act |-> 1, err |-> NoErr]
    /\ stack' = <<>>
    /\ tasks' = {}
    /\ crashed' = FALSE
    /\ log' = <<>>
    /\ UNCHANGED <<phase, config>>
    /\ UNCHANGED <<match, static, nfCalls, flights, nest>>

\* a handler decides, the second time as it did the first time
Decides == (HandlerCallsNext \/ HandlerSends) /\ AsBefore'

\* a handler waits for a callback; the first time every handler decides
\* at once, before it returns
HandlerWaits == past # <<>> /\ HandlerDefersAs("later")

NextTiming ==
    \/ Use
    \/ AddRoute
    \/ Listen
    \/ HandleRequest
    \/ Again
    \/ Next_
    \/ InvokeNotFound
    \/ Propagate
    \/ Decides
    \/ HandlerWaits
    \/ HandlerReturns
    \/ Resume

SpecTiming == Init /\ [][NextTiming]_vars

(***************************************************************************)
(* A router on a router: R2.mount(p, R1) and app.mount(q, R1).  Router.mount*)
(* sets R2's base path and gives R1 a middleware (R1.use) that hands the   *)
(* request to R2.handle when req.path starts with R2's base path.  Every   *)
(* handler invoked calls next().                                           *)
(***************************************************************************)
NestMountPaths == {P_u, P_x}
NestRouteDefs ==
    { [method |-> "GET", path |-> P_i, n |-> 1],
      [method |-> "GET", path |-> <<"/", "1">>, n |-> 1] }
NestRequestPaths == {P_u_1, P_u, P_x, <<"/", "x", "/", "1">>}

NestRegistrations == Len(nest.r1) + Len(nest.r2)

InitNested ==
    /\ phase = "nesting"
    /\ Fresh
    /\ mIn = NoInput
    /\ mOut = NoOutput
    /\ NoStatic

\* R1.get(path, h)
R1AddRoute ==
    /\ phase = "nesting"
    /\ NestRegistrations < MaxRegistrations
    /\ \E d \in NestRouteDefs : nest' = [nest EXCEPT !.r1 = Append(@, d)]
    /\ UNCHANGED <<phase, config, runtime, match, static, nfCalls, past, flights>>

\* R2.get(path, h)
R2AddRoute ==
    /\ phase = "nesting"
    /\ NestRegistrations < MaxRegistrations
    /\ \E d \in NestRouteDefs : nest' = [nest EXCEPT !.r2 = Append(@, d)]
    /\ UNCHANGED <<phase, config, runtime, match, static, nfCalls, past, flights>>

\* R2.mount(p, R1): this.setBasePath(p); R1.use(closure)
MountR2OnR1 ==
    /\ phase = "nesting"
    /\ ~nest.onR1
    /\ \E p \in NestMountPaths :
          nest' = [nest EXCEPT !.b2 = normalizePath(p), !.onR1 = TRUE]
    /\ UNCHANGED <<phase, config, runtime, match, static, nfCalls, past, flights>>

\* app.mount(q, R1): R1.setBasePath(normalizedPath); app.use(closure)
MountR1OnApp ==
    /\ phase = "nesting"
    /\ ~nest.onApp
    /\ \E q \in NestMountPaths :
          nest' = [nest EXCEPT !.b1 = normalizePath(MountNormalizedPath(q)),
                               !.q = MountNormalizedPath(q), !.onApp = TRUE]
    /\ UNCHANGED <<phase, config, runtime, match, static, nfCalls, past, flights>>

\* the handlers of route r of a router, named by k
HandlersOf(k, rts, r) == [j \in 1..rts[r].n |-> H(k, r, j)]

\* Router.handle of R1: null from matchRoute is answered with done(), else
\* handlers = [...this.middlewares, ...match.route.handlers]
R1Chain(n, r) ==
    IF r = 0 THEN [mws |-> FALSE, handlers |-> <<>>]
    ELSE [mws |-> n.onR1, handlers |-> HandlersOf("r1h", n.r1, r)]

\* the middleware that R2.mount gave R1, then R2.handle: the handlers of R2
\* invoked for the request
R2Calls(n, m, u) ==
    LET r == RouterFind(n.r2, n.b2, m, u)
    IN IF /\ n.b2 = <<"/">> \/ StartsWith(u, n.b2)
          /\ HandlePassesPrefix(n.b2, u)
          /\ r # 0
       THEN HandlersOf("r2h", n.r2, r)
       ELSE <<>>

\* the middleware that app.mount installed, then R1.handle
R1Calls(n, m, u) ==
    LET r == RouterFind(n.r1, n.b1, m, u)
        c == R1Chain(n, r)
    IN IF MountDelegates(u, n.q) /\ HandlePassesPrefix(n.b1, u)
       THEN (IF c.mws THEN R2Calls(n, m, u) ELSE <<>>) \o c.handlers
       ELSE <<>>

\* a request is dispatched by the Application, whose chain is the middleware
\* of app.mount
NestedRequest ==
    /\ phase = "nesting"
    /\ nest.onApp
    /\ phase' = "nested"
    /\ \E u \in NestRequestPaths :
          nest' = [nest EXCEPT !.req = [method |-> "GET", url |-> u],
                               !.calls = R1Calls(nest, "GET", u)]
    /\ UNCHANGED <<config, runtime, match, static, nfCalls, past, flights>>

NextNested ==
    \/ R1AddRoute
    \/ R2AddRoute
    \/ MountR2OnR1
    \/ MountR1OnApp
    \/ NestedRequest

SpecNested == InitNested /\ [][NextNested]_vars

(***************************************************************************)
(* Parameters through a mounted router: the Application's route and the    *)
(* router's routes bind different names, the same name to different        *)
(* segments, and a route of the router binds a name before it fails to     *)
(* match.                                                                  *)
(***************************************************************************)
MaxParamRegistrations == 4

\* app.get('/:i/:j/2', h)
ParamAppRouteDefs == { [method |-> "GET", path |-> Join(<<<<":", "i">>, <<":", "j">>, <<"2">>>>), n |-> 1] }
\* router.get('/:k/3', h), router.get('/:i/2', h), router.get('/:i/:j', h)
ParamRouterRouteDefs ==
    { [method |-> "GET", path |-> Join(<<<<":", "k">>, <<"3">>>>), n |-> 1],
      [method |-> "GET", path |-> Join(<<<<":", "i">>, <<"2">>>>), n |-> 1],
      [method |-> "GET", path |-> Join(<<<<":", "i">>, <<":", "j">>>>), n |-> 1] }
\* GET /u/1/2, GET /u/1/3, GET /u/1
ParamRequestPaths ==
    { Join(<<<<"u">>, <<"1">>, <<"2">>>>), Join(<<<<"u">>, <<"1">>, <<"3">>>>), P_u_1 }

AddRouteParams == AddRouteWithin(ParamAppRouteDefs, MaxParamRegistrations)

MountParams == MountWithin(MountPaths, MaxParamRegistrations)

RouterAddRouteParams == RouterAddRouteWithin(ParamRouterRouteDefs, MaxParamRegistrations)

HandleRequestParams == HandleRequestOf(ParamRequestPaths)

NextParams ==
    \/ AddRouteParams
    \/ MountParams
    \/ RouterAddRouteParams
    \/ Listen
    \/ HandleRequestParams
    \/ Next_
    \/ InvokeNotFound
    \/ MountedMiddleware
    \/ HandlerCallsNext
    \/ HandlerReturns

SpecParams == Init /\ [][NextParams]_vars

(***************************************************************************)
(* Handlers that decide once: every handler invoked, at once or after      *)
(* waiting for a callback, either ends the response or calls next, one     *)
(* time, and then returns.  The dispatcher is synchronous code and the     *)
(* event loop runs every pending callback, so a step that can be taken is  *)
(* taken.                                                                  *)
(***************************************************************************)
\* the handler on top of the stack has not decided yet
Undecided == Running /\ Top(stack).ops = 0

CallsNextOnce == HandlerCallsNextIf(Undecided)

EndsResponse == HandlerSendsIf(Undecided)

WaitsFirst == Undecided /\ HandlerDefersAs("later")

ReturnsDecided == Running /\ Top(stack).ops >= 1 /\ HandlerReturns

NextLive ==
    \/ Use
    \/ AddRoute
    \/ Listen
    \/ HandleRequest
    \/ Next_
    \/ InvokeNotFound
    \/ CallsNextOnce
    \/ EndsResponse
    \/ WaitsFirst
    \/ ReturnsDecided
    \/ Resume

SpecLive == Init /\ [][NextLive]_vars /\ WF_vars(NextLive)

(***************************************************************************)
(* Middlewares registered late: app.use and app.mount called only after a  *)
(* route has been registered.                                              *)
(***************************************************************************)
UseLate == routes # <<>> /\ Use

MountLate == routes # <<>> /\ Mount

NextLate ==
    \/ AddRoute
    \/ UseLate
    \/ MountLate
    \/ RouterAddRoute
    \/ Listen
    \/ HandleRequest
    \/ Next_
    \/ InvokeNotFound
    \/ MountedMiddleware
    \/ Propagate
    \/ HandlerCallsNext
    \/ HandlerSends
    \/ HandlerReturns

SpecLate == Init /\ [][NextLate]_vars

(***************************************************************************)
(* Reading the log.                                                        *)
(***************************************************************************)
OpKinds == {"next", "send", "write", "throw", "defer"}

\* positions of the log where handler h performed an operation
OpsAt(h) == {i \in 1..Len(log) : log[i].e \in OpKinds /\ log[i].h = h}

\* positions where h called next, with or without an error
NextsAt(h) == {i \in OpsAt(h) : log[i].e = "next"}

IsCall(i) == log[i].e = "call"

\* the handlers invoked by the "next" of closure a, in order
RECURSIVE CallsFrom(_, _)
CallsFrom(a, i) ==
    IF i > Len(log) THEN <<>>
    ELSE IF IsCall(i) /\ log[i].x = a
         THEN <<log[i].h>> \o CallsFrom(a, i + 1)
         ELSE CallsFrom(a, i + 1)

CallsOf(a) == CallsFrom(a, 1)

\* the handlers invoked so far
Called == {log[i].h : i \in {j \in 1..Len(log) : IsCall(j)}}

\* positions where Application.handleError was invoked
ErrorsAt == {i \in 1..Len(log) : log[i].e = "handleError"}

\* every handler so far did nothing but call next() once, at once or from
\* a later callback
OnlyNext(h) ==
    /\ Cardinality(NextsAt(h)) <= 1
    /\ \A i \in OpsAt(h) :
          \/ log[i].e = "next" /\ log[i].x = NoErr
          \/ log[i].e = "defer"

AllOnlyNext == \A h \in Called : OnlyNext(h)

\* route q of the Application / of the Router matches the request
AppRouteMatches(q) ==
    routes[q].method = req.method /\ matchRoute(routes[q].path, req.url)

RouterRouteMatches(q) ==
    /\ rRoutes[q].method = req.method
    /\ routerMatchOne(basePath, rRoutes[q].path, req.url).matched

(***************************************************************************)
(* C1.  Dispatch selects the first route, in registration order, whose     *)
(* method equals the request's and whose pattern matches the path: every   *)
(* route handler that is spliced into a chain or invoked belongs to that   *)
(* route, in the Application and in the Router; no handler of a later      *)
(* matching route, or of a route of another method, is ever invoked.       *)
(***************************************************************************)
IsFirstAppMatch(r) ==
    /\ r \in 1..Len(routes)
    /\ AppRouteMatches(r)
    /\ \A q \in 1..(r - 1) : ~AppRouteMatches(q)

IsFirstRouterMatch(r) ==
    /\ r \in 1..Len(rRoutes)
    /\ RouterRouteMatches(r)
    /\ \A q \in 1..(r - 1) : ~RouterRouteMatches(q)

FromFirstMatch(h) ==
    /\ h.k = "rh" => IsFirstAppMatch(h.r)
    /\ h.k = "rrh" => IsFirstRouterMatch(h.r)

C1_FirstMatchWins ==
    /\ \A a \in 1..Len(acts) : \A i \in 1..Len(acts[a].chain) :
          FromFirstMatch(acts[a].chain[i])
    /\ \A h \in Called : FromFirstMatch(h)
    /\ (phase = "serving" /\ \E q \in 1..Len(routes) : AppRouteMatches(q))
          => \E i \in 1..Len(acts[1].chain) : acts[1].chain[i].k = "rh"

\* two routes A then B match the request and a handler of A was invoked
C1_Witness ==
    /\ Len(routes) = 2
    /\ AppRouteMatches(1) /\ AppRouteMatches(2)
    /\ H("rh", 1, 1) \in Called

(***************************************************************************)
(* C2.  Global middlewares run in their registration order, then the       *)
(* matched route's handlers in theirs: as long as every handler only calls *)
(* next(), the handlers invoked by the Application are a prefix of         *)
(* M1, M2, ..., R's handlers, and the whole of it once each of them has    *)
(* called next().                                                          *)
(***************************************************************************)
\* the first route that matches the request, 0 when none does
MatchedRoute ==
    IF \E r \in 1..Len(routes) : IsFirstAppMatch(r)
    THEN CHOOSE r \in 1..Len(routes) : IsFirstAppMatch(r)
    ELSE 0

ExpectedOrder ==
    [j \in 1..Len(middlewares) |-> H("mw", 0, j)]
        \o (IF MatchedRoute = 0 THEN <<>>
            ELSE [j \in 1..routes[MatchedRoute].n |-> H("rh", MatchedRoute, j)])

IsPrefix(s, t) == Len(s) <= Len(t) /\ s = SubSeq(t, 1, Len(s))

C2_MiddlewareOrder ==
    (phase = "serving" /\ AllOnlyNext) =>
        /\ IsPrefix(CallsOf(1), ExpectedOrder)
        /\ (\A j \in 1..Len(ExpectedOrder) :
               ~IsMountEntry(ExpectedOrder[j]) /\ NextsAt(ExpectedOrder[j]) # {})
              /\ ctl.op \in {"idle", "run", "notFound"}
           => CallsOf(1) = ExpectedOrder

\* M1, M2 and both handlers of R were invoked, in that order
C2_Witness ==
    /\ phase = "serving"
    /\ AllOnlyNext
    /\ middlewares = <<FnMiddleware, FnMiddleware>>
    /\ MatchedRoute # 0
    /\ CallsOf(1) = <<H("mw", 0, 1), H("mw", 0, 2),
                      H("rh", MatchedRoute, 1), H("rh", MatchedRoute, 2)>>

(***************************************************************************)
(* C3.  If the k-th handler of a chain of length n (k < n) calls next(err) *)
(* with a truthy error, and calls next no other time, then no handler is   *)
(* invoked afterwards and handleError is invoked exactly once; the same    *)
(* for a handler of a mounted Router's inner chain.  (Stated for requests  *)
(* in which every other handler only calls next().)                        *)
(***************************************************************************)
\* h is not the last entry of the Application's chain; a Router handler
\* always has the host's chain behind it
NotLast(h) ==
    \E a \in 1..Len(acts) : \E p \in 1..Len(acts[a].chain) :
        /\ acts[a].chain[p] = h
        /\ (p < Len(acts[a].chain) \/ acts[a].kind = "router")

\* h calls next() at most once, without an error, and never throws; it may
\* write to the response
Quiet(h) ==
    /\ Cardinality(NextsAt(h)) <= 1
    /\ \A i \in OpsAt(h) :
          /\ log[i].e # "throw"
          /\ log[i].e = "next" => log[i].x = NoErr

\* at position i handler log[i].h signalled an error with next(err), which
\* is all it does, and every other handler is quiet
SignalsError(i) ==
    /\ log[i].e = "next"
    /\ log[i].x # NoErr
    /\ log[i].h.k # "nf"
    /\ OpsAt(log[i].h) = {i}
    /\ NotLast(log[i].h)
    /\ \A h \in Called \ {log[i].h} : Quiet(h)

C3_ErrorShortCircuits ==
    \A i \in 1..Len(log) :
        SignalsError(i) =>
            /\ \A j \in (i + 1)..Len(log) : ~IsCall(j)
            /\ Cardinality(ErrorsAt) <= 1
            /\ ctl.op # "next" => Cardinality(ErrorsAt) = 1

(***************************************************************************)
(* C4.  When a request passes a mounted router's prefix filter and no      *)
(* route of the router matches, the router calls the host's next() without *)
(* an error: the host's chain goes on with its next entry, and nothing is  *)
(* written to the response by the router (no not-found response of its     *)
(* own; the host's not-found terminal runs only if the host's chain is     *)
(* exhausted and no host route matched).                                   *)
(***************************************************************************)
RouterMisses ==
    /\ HandlePassesPrefix(basePath, req.url)
    /\ RouterFind(rRoutes, basePath, req.method, req.url) = 0

\* at position i the middleware installed by mount was invoked for a
\* request that it delegates and that the router has no route for
MissAt(i) ==
    /\ IsCall(i)
    /\ IsMountEntry(log[i].h)
    /\ MountDelegates(req.url, middlewares[log[i].h.j].path)
    /\ RouterMisses

C4_RouterMissFallsThrough ==
    phase = "serving" =>
        \A i \in 1..Len(log) :
            MissAt(i) =>
                LET j == log[i].h.j
                    host == acts[log[i].x]
                IN /\ Len(acts) = 1
                   /\ i < Len(log) =>
                         IF j < Len(host.chain)
                         THEN log[i + 1] = Event("call", host.chain[j + 1], log[i].x)
                         ELSE /\ log[i + 1].e \in OpKinds \cup {"notFound"}
                              /\ log[i + 1].e = "notFound" => ~host.hasRoute
                   /\ (i = Len(log) /\ ctl.op \in {"idle", "run"}) =>
                         /\ j = Len(host.chain)
                         /\ host.hasRoute \/ isResponseEnded(res)

\* the router missed and the host went on with the entry after the mount
C4_Witness ==
    /\ phase = "serving"
    /\ \E i \in 1..(Len(log) - 1) :
          /\ MissAt(i)
          /\ IsCall(i + 1)
          /\ log[i + 1].h \in {H("mw", 0, log[i].h.j + 1), H("rh", 1, 1)}

(***************************************************************************)
(* C6.  For the Application route GET /u/:i, a request for /u/1/ (single   *)
(* trailing slash) matches exactly as /u/1 does, with params {i: '1'},     *)
(* while /u does not match.                                                *)
(***************************************************************************)
ParamsI1 == [n \in {<<"i">>} |-> <<"1">>]

C6_TrailingSlashMatches ==
    (/\ phase = "serving"
     /\ Len(routes) >= 1
     /\ routes[1].method = "GET"
     /\ routes[1].path = P_u_i
     /\ req.method = "GET") =>
        /\ req.url \in {P_u_1, P_u_1s} => acts[1].hasRoute /\ req.params = ParamsI1
        /\ req.url = P_u => ~acts[1].hasRoute

(***************************************************************************)
(* C7.  Whenever the Application's not-found handler is invoked, the       *)
(* assembled chain is exhausted (the cursor is past its end and every      *)
(* entry has been invoked), no Application route matched the request, and  *)
(* the response is still open: neither headers sent nor ended.             *)
(***************************************************************************)
C7_NotFoundOnlyWhen ==
    ctl.op = "notFound" =>
        LET A == acts[ctl.act]
        IN /\ A.kind = "app"
           /\ A.index > Len(A.chain)
           /\ \A p \in 1..Len(A.chain) : A.chain[p] \in Called
           /\ ~A.hasRoute
           /\ \A q \in 1..Len(routes) : ~AppRouteMatches(q)
           /\ ~res.headersSent
           /\ ~res.ended

\* as the claim has it: every entry has, moreover, called next() itself
\* (the middleware installed by mount passes its own next on to the router)
C7_EveryEntryCalledNext ==
    ctl.op = "notFound" =>
        /\ C7_NotFoundOnlyWhen
        /\ \A p \in 1..Len(acts[ctl.act].chain) :
              LET h == acts[ctl.act].chain[p]
              IN \/ IsMountEntry(h)
                 \/ \E i \in NextsAt(h) : log[i].x = NoErr

\* the not-found handler is about to run after the middlewares passed on,
\* with routes registered of which none matched
C7_Witness ==
    /\ ctl.op = "notFound"
    /\ Len(acts[ctl.act].chain) >= 1
    /\ Len(routes) >= 1
    /\ \A h \in Called : OnlyNext(h)

(***************************************************************************)
(* C8.  Whenever next() is invoked without an error on an exhausted chain  *)
(* and no route matched, the not-found terminal is invoked if and only if  *)
(* the response has neither been ended nor had its headers sent: once a    *)
(* middleware has sent headers, even without ending the response, the      *)
(* not-found terminal is not invoked.                                      *)
(***************************************************************************)
ExhaustedNext ==
    /\ ctl.op = "next"
    /\ ctl.err = NoErr
    /\ acts[ctl.act].kind = "app"
    /\ acts[ctl.act].index >= Len(acts[ctl.act].chain)
    /\ ~acts[ctl.act].hasRoute

C8_NotFoundUnlessSent ==
    [][ExhaustedNext =>
          (ctl'.op = "notFound" <=> ~res.ended /\ ~res.headersSent)]_vars

\* as the claim has it: the terminal runs whenever the response is not ended
C8_NotFoundUnlessEnded ==
    [][(ExhaustedNext /\ ~res.ended) => ctl'.op = "notFound"]_vars

\* the default not-found handler has answered a request that went through
\* at least one middleware
C8_Witness ==
    /\ Len(log) >= 2
    /\ log[Len(log)].e = "notFound"
    /\ res.statusCode = 404
    /\ res.ended

(***************************************************************************)
(* C9.  A handler that throws synchronously, before calling next, has the  *)
(* effect of calling next(err) with the thrown value: handleError is       *)
(* invoked once, with that value, and no later chain entry is invoked; in  *)
(* the Application's chain and in a mounted Router's.  (Stated for         *)
(* requests in which every other handler is quiet.)                        *)
(***************************************************************************)
\* at position i handler log[i].h threw, having neither called next nor
\* put anything off to a later callback
ThrowsFirst(i) ==
    /\ log[i].e = "throw"
    /\ log[i].h.k # "nf"
    /\ \A j \in OpsAt(log[i].h) : log[j].e \notin {"next", "defer"}
    /\ \A h \in Called \ {log[i].h} : Quiet(h)

C9_ThrowIsNextErr ==
    \A i \in 1..Len(log) :
        ThrowsFirst(i) =>
            /\ \A j \in (i + 1)..Len(log) : ~IsCall(j)
            /\ \A j \in ErrorsAt : j > i /\ log[j].x = log[i].x
            /\ Cardinality(ErrorsAt) <= 1
            /\ ctl.op \notin {"next", "throw"} => Cardinality(ErrorsAt) = 1

(***************************************************************************)
(* C10.  Whatever the handlers do, handleError is invoked at most once     *)
(* while a request is dispatched.                                          *)
(***************************************************************************)
C10_HandleErrorAtMostOnce == Cardinality(ErrorsAt) <= 1

(***************************************************************************)
(* C5.  For a pattern p whose segments are literals and ':name's with      *)
(* distinct names, and a path c that matches it structurally (same number  *)
(* of segments, literals equal), the params a matcher delivers are exactly *)
(* the bindings name -> segment of c at the place of ':name' in p; when c  *)
(* has no trailing slash the matcher does deliver them; and running the    *)
(* matcher again on the same inputs gives the same result.                 *)
(***************************************************************************)
IsLiteralSeg(seg) == \A k \in 1..Len(seg) : seg[k] \in WordChars
IsParamSeg(seg) ==
    /\ Len(seg) >= 2
    /\ seg[1] = ":"
    /\ \A k \in 2..Len(seg) : seg[k] \in WordChars

\* the pattern a matcher works on: a router prefixes its base path
FullPattern == IF mOut.by = "router" THEN mIn.base \o mIn.pattern ELSE mIn.pattern

WellFormed(p) ==
    LET ps == Segments(p)
    IN /\ \A k \in 1..Len(ps) : IsLiteralSeg(ps[k]) \/ IsParamSeg(ps[k])
       /\ \A k, l \in 1..Len(ps) : (IsParamSeg(ps[k]) /\ ps[k] = ps[l]) => k = l

StructurallyMatch(p, c) ==
    LET ps == Segments(p)
        cs == Segments(c)
    IN /\ Len(ps) = Len(cs)
       /\ \A k \in 1..Len(ps) : IsLiteralSeg(ps[k]) => ps[k] = cs[k]

Bindings(p, c) ==
    LET ps == Segments(p)
        cs == Segments(c)
        at == {k \in 1..Len(ps) : IsParamSeg(ps[k])}
    IN [n \in {Tail(ps[k]) : k \in at} |->
           cs[CHOOSE k \in at : Tail(ps[k]) = n]]

C5_ParamsAreBindings ==
    (/\ mOut.by # ""
     /\ mIn.method = "GET"
     /\ WellFormed(FullPattern)
     /\ StructurallyMatch(FullPattern, mIn.path)) =>
        /\ mOut.now.matched => mOut.now.params = Bindings(FullPattern, mIn.path)
        /\ ~EndsWithSlash(mIn.path) => mOut.now.matched
        /\ mOut.runs >= 2 => mOut.now = mOut.before

\* the Application's matcher, run twice, delivered two bindings
C5_Witness ==
    /\ mOut.by = "app"
    /\ mOut.runs = 2
    /\ mOut.now.matched
    /\ Cardinality(DOMAIN mOut.now.params) = 2
    /\ StructurallyMatch(FullPattern, mIn.path)

(***************************************************************************)
(* C11.  handleError never throws, whatever state the response is in: also *)
(* when next(err) is signalled after the headers have been sent or the     *)
(* response has been ended, it completes without raising.                  *)
(***************************************************************************)
\* the last thing that happened is an invocation of handleError, and an
\* exception is now on its way out of it
HandleErrorThrew ==
    /\ Len(log) > 0
    /\ log[Len(log)].e = "handleError"
    /\ ctl.op = "throw"

C11_HandleErrorNeverThrows == ~HandleErrorThrew

(***************************************************************************)
(* C12.  Whatever the request URL, every path serveStatic hands to fs.stat *)
(* or fs.createReadStream is the resolved root directory or a path beneath *)
(* it.                                                                     *)
(***************************************************************************)
\* an absolute path without '..' segments that is rootPath or below it
BeneathRoot(path) ==
    /\ \A k \in 1..Len(Segments(path)) : Segments(path)[k] # DotDot
    /\ path = rootPath \/ StartsWith(path, rootPath \o <<"/">>)

C12_NoAccessOutsideRoot ==
    \A k \in 1..Len(sRun.fs) : BeneathRoot(sRun.fs[k].path)

\* a path with a '..' segment among its decoded segments
HasTraversalSegment(path) ==
    \E k \in 1..Len(Segments(path)) : Segments(path)[k] = DotDot

\* the file system was accessed for a URL with a percent-encoded '..'
C12_Witness ==
    /\ sRun.fs # <<>>
    /\ decodeURIComponent(sIn.url).ok
    /\ ~HasTraversalSegment(sIn.url)
    /\ HasTraversalSegment(decodeURIComponent(sIn.url).out)

(***************************************************************************)
(* C13.  Whenever the decoded request path contains a parent-directory     *)
(* segment, serveStatic calls next(error) and accesses the file system not *)
(* at all: it never clamps the path into root and goes on to stat.         *)
(***************************************************************************)
C13_TraversalRejected ==
    (/\ sIn.method \in {"GET", "HEAD"}
     /\ decodeURIComponent(sIn.url).ok
     /\ HasTraversalSegment(decodeURIComponent(sIn.url).out)
     /\ sRun.pc \notin {"off", "start"}) =>
        /\ sRun.fs = <<>>
        /\ Len(sRun.nexts) = 1
        /\ sRun.nexts[1] # NoErr

(***************************************************************************)
(* C14.  When fs.stat of the resolved path fails with ENOENT, serveStatic  *)
(* calls next() exactly once, without an error, and leaves the response as *)
(* it was (status, headers, not ended); when it fails otherwise, it calls  *)
(* next(error) with that error.                                            *)
(***************************************************************************)
C14_MissingFileFallsThrough ==
    /\ sRun.stat = "ENOENT" =>
          /\ sRun.nexts = <<NoErr>>
          /\ sRes = FreshStaticRes
          /\ sRun.pc = "done"
    /\ sRun.stat \in StatErrors \ {"ENOENT"} =>
          /\ sRun.nexts = <<sRun.stat>>
          /\ sRun.pc = "done"

C14_Witness ==
    /\ sRun.stat = "ENOENT"
    /\ sIn.method = "GET"
    /\ sRun.nexts = <<NoErr>>

(***************************************************************************)
(* C15.  For a request that resolves to a directory: index disabled ->     *)
(* next() without error; index path not a regular file (or its stat        *)
(* failing) -> next() without error; index path a regular file -> it is    *)
(* served, with the content type of its extension, and next is called only *)
(* if reading it fails (the stream's error for GET, the error of stat for  *)
(* HEAD), then once and with that error.                                   *)
(***************************************************************************)
IndexIsServed ==
    /\ "Content-Type" \in DOMAIN sRes.headers
    /\ sRes.headers["Content-Type"] = "text/html"
    /\ sRun.fs[Len(sRun.fs)].path = pathJoin(absolutePath(sIn.url), IndexHtml)

DirectoryWithoutIndex ==
    /\ (sRun.stat = "dir" /\ sIn.index.off) =>
          sRun.nexts = <<NoErr>> /\ Len(sRun.fs) = 1 /\ sRes = FreshStaticRes
    /\ (sRun.stat = "dir" /\ sRun.indexStat \notin {"", "file"}) =>
          sRun.nexts = <<NoErr>> /\ sRes = FreshStaticRes

C15_IndexPolicy ==
    /\ DirectoryWithoutIndex
    /\ (sRun.stat = "dir" /\ sRun.indexStat = "file") =>
          /\ ~sIn.index.off
          /\ IndexIsServed
          /\ \/ sRun.nexts = <<>>
             \/ /\ sIn.method = "GET"
                /\ sRun.streamError # ""
                /\ sRun.nexts = <<sRun.streamError>>
             \/ /\ sIn.method = "HEAD"
                /\ ~sRes.ended
                /\ Len(sRun.nexts) = 1
                /\ sRun.nexts[1] \in StatErrors

\* as the claim has it: once the index file is served, next is not called
C15_IndexServedNoNext ==
    /\ DirectoryWithoutIndex
    /\ (sRun.stat = "dir" /\ sRun.indexStat = "file") =>
          IndexIsServed /\ sRun.nexts = <<>>

\* the index file of a directory was served to its end
C15_Witness ==
    /\ sRun.stat = "dir"
    /\ sRun.indexStat = "file"
    /\ sIn.method = "GET"
    /\ sRes.ended
    /\ sRun.nexts = <<>>

(***************************************************************************)
(* C16.  For a request whose method is neither GET nor HEAD, serveStatic   *)
(* calls next() exactly once, without an error, never accesses the file    *)
(* system and leaves request and response unchanged.                       *)
(***************************************************************************)
C16_OtherMethodsPassThrough ==
    [][sIn.method \notin {"", "GET", "HEAD"} =>
          /\ sIn' = sIn
          /\ sRes' = sRes
          /\ sRun'.fs = <<>>
          /\ IF sRun.pc = "start"
             THEN sRun'.nexts = <<NoErr>> /\ sRun'.pc = "done"
             ELSE sRun' = sRun]_vars

C16_Witness ==
    /\ sIn.method = "POST"
    /\ sRun.pc = "done"
    /\ sRun.nexts = <<NoErr>>

(***************************************************************************)
(* C17.  When the last component of the resolved path begins with '.',     *)
(* the dotfiles option alone decides: 'deny' -> the response is ended with *)
(* status 403 and next is never called; 'ignore' -> next() without error   *)
(* and no access to the file system; 'allow' -> serveStatic goes on to     *)
(* fs.stat of the resolved path, as for any other file.                    *)
(***************************************************************************)
\* serveStatic resolved the request's path, and its last component begins
\* with '.'
ResolvedDotfile ==
    /\ sIn.method \in {"GET", "HEAD"}
    /\ decodeURIComponent(sIn.url).ok
    /\ ~IncludesDotDot(filePath(sIn.url))
    /\ pathBasename(absolutePath(sIn.url)) # <<>>
    /\ Head(pathBasename(absolutePath(sIn.url))) = "."
    /\ sRun.pc \notin {"off", "start"}

C17_DotfilesPolicy ==
    ResolvedDotfile =>
        /\ sIn.dotfiles = "deny" =>
              /\ sRes.statusCode = 403
              /\ sRes.ended
              /\ sRun.nexts = <<>>
              /\ sRun.fs = <<>>
        /\ sIn.dotfiles = "ignore" =>
              /\ sRun.nexts = <<NoErr>>
              /\ sRun.fs = <<>>
              /\ sRes = FreshStaticRes
        /\ sIn.dotfiles = "allow" =>
              /\ sRun.fs # <<>>
              /\ sRun.fs[1] = [op |-> "stat", path |-> absolutePath(sIn.url)]
              /\ sRun.stat = "" => sRun.nexts = <<>> /\ sRes = FreshStaticRes

C17_Witness ==
    /\ ResolvedDotfile
    /\ sIn.dotfiles = "deny"
    /\ sRes.statusCode = 403

(***************************************************************************)
(* C18.  While a file is served for GET, an error emitted by the file      *)
(* stream, at open or after bytes were written, makes serveFile call       *)
(* next(error) with that error.                                            *)
(***************************************************************************)
C18_StreamErrorForwarded ==
    sRun.streamError # "" =>
        /\ sIn.method = "GET"
        /\ sRun.nexts = <<sRun.streamError>>

\* the stream failed after a chunk had been written
C18_Witness ==
    /\ sRun.streamError # ""
    /\ sRes.headersSent
    /\ sRun.nexts # <<>>

(***************************************************************************)
(* C19.  When serveStatic serves a file, Content-Type is the table's entry *)
(* for the file's lower-cased extension, 'application/octet-stream' when   *)
(* the table has none; Cache-Control 'public, max-age=N' is set if and     *)
(* only if maxAge N > 0.                                                   *)
(***************************************************************************)
\* serveFile has set the headers for the path it was last given
FileServed ==
    /\ sRun.fs # <<>>
    /\ sRun.pc \in {"headStat", "streaming"} \/ (sRun.pc = "done" /\ sRun.stat = "file")
    /\ sRun.stat = "file" \/ sRun.indexStat = "file"

ExpectedType(name) ==
    IF name \in {<<"a", ".", "j", "s">>, <<"a", ".", "J", "S">>} THEN "text/javascript"
    ELSE IF name = IndexHtml THEN "text/html"
    ELSE "application/octet-stream"

C19_ContentTypeAndCache ==
    FileServed =>
        /\ "Content-Type" \in DOMAIN sRes.headers
        /\ sRes.headers["Content-Type"]
              = ExpectedType(pathBasename(sRun.fs[Len(sRun.fs)].path))
        /\ "Cache-Control" \in DOMAIN sRes.headers <=> sIn.maxAge > 0
        /\ "Cache-Control" \in DOMAIN sRes.headers =>
              sRes.headers["Cache-Control"] = <<"public, max-age=", sIn.maxAge>>

(***************************************************************************)
(* C20.  mount stores a normalized base path (a leading slash, no trailing *)
(* slash unless it is the root), and the middleware it installs hands to   *)
(* the router every request whose path starts with that base path: after   *)
(* app.mount('/u/', router), a request for /u is delegated and the         *)
(* router's route '/' serves it.                                           *)
(***************************************************************************)
NormalizedBasePath(base) ==
    /\ StartsWith(base, <<"/">>)
    /\ base = <<"/">> \/ ~EndsWithSlash(base)

C20_MountDelegatesByBasePath ==
    phase = "serving" =>
        \A i \in 1..Len(log) :
            (IsCall(i) /\ IsMountEntry(log[i].h)) =>
                LET r == RouterFind(rRoutes, basePath, req.method, req.url)
                IN /\ NormalizedBasePath(basePath)
                   /\ (/\ normalizePath(middlewares[log[i].h.j].path) = basePath
                       /\ StartsWith(req.url, basePath)
                       /\ r # 0
                       /\ i < Len(log)) =>
                          /\ IsCall(i + 1)
                          /\ log[i + 1].h = H("rrh", r, 1)

(***************************************************************************)
(* C21.  A route with pattern r of a router with base path b is selected   *)
(* for a request path c exactly when the method is the route's and         *)
(* normalize(c) matches normalize(b + r) segment by segment: as many       *)
(* segments, literals equal, ':name' segments binding.  The base path is   *)
(* prepended to the pattern, never stripped from the request path: with    *)
(* b = /u and r = /u the path /u/u matches, /u and /u/u/1 do not.          *)
(***************************************************************************)
WalkMatches(p, c) ==
    LET ps == Segments(normalizePath(p))
        cs == Segments(normalizePath(c))
    IN /\ Len(ps) = Len(cs)
       /\ \A k \in 1..Len(ps) : Head(ps[k]) = ":" \/ ps[k] = cs[k]

C21_RouterMatchesFullPath ==
    mOut.by = "router" =>
        /\ mOut.now.matched <=>
              (mIn.method = "GET" /\ WalkMatches(mIn.base \o mIn.pattern, mIn.path))
        /\ (mIn.base = P_u /\ mIn.pattern = P_u /\ mIn.method = "GET") =>
              (mOut.now.matched <=> normalizePath(mIn.path) = P_u \o P_u)

\* a route with a parameter under the base path, asked for with a trailing
\* slash
C21_Witness ==
    /\ mOut.by = "router"
    /\ mIn.base = P_u
    /\ mIn.pattern = P_i
    /\ EndsWithSlash(mIn.path)
    /\ mOut.now.matched
    /\ DOMAIN mOut.now.params # {}

(***************************************************************************)
(* C22.  A mounted router dispatches as the Application does: for every    *)
(* request that passes its prefix filter the inner chain is the router's   *)
(* middlewares, in registration order, followed by the matched route's     *)
(* handlers (none when no route of the router matches).  The router's      *)
(* middlewares therefore run even when the router has no route for the     *)
(* request, before control goes back to the host.                          *)
(***************************************************************************)
C22_RouterMiddlewaresRunOnMiss ==
    phase = "serving" =>
        \A i \in 1..Len(log) :
            (MissAt(i) /\ rMiddlewares # <<>> /\ i < Len(log)) =>
                log[i + 1] = Event("call", H("rmw", 0, 1), Len(acts))

(***************************************************************************)
(* C23.  A function registered with app.use that declares the parameters   *)
(* (err, req, res, next) is an error-handling middleware: it is invoked    *)
(* only after some handler has signalled an error, by next(err) or by       *)
(* throwing, and never for a request that goes through without an error.   *)
(***************************************************************************)
\* an error was signalled before position i of the log
ErrorBefore(i) ==
    \E j \in 1..(i - 1) :
        \/ log[j].e = "throw"
        \/ log[j].e = "next" /\ log[j].x # NoErr

C23_ErrorMiddlewareOnlyOnError ==
    phase = "serving" =>
        \A i \in 1..Len(log) :
            (/\ IsCall(i)
             /\ log[i].h.k = "mw"
             /\ middlewares[log[i].h.j].kind = "errfn") => ErrorBefore(i)

(***************************************************************************)
(* C24.  The not-found terminal of a request is the handler given to the   *)
(* latest setNotFoundHandler call, and the default handler, which ends the *)
(* response with status 404 and body 'Not Found', when there was no such   *)
(* call; setNotFoundHandler changes neither the middlewares nor the        *)
(* routes.                                                                 *)
(***************************************************************************)
LatestNotFoundHandler == IF nfCalls = <<>> THEN "default" ELSE Last(nfCalls)

NotFoundIsLatest ==
    /\ \A i \in 1..Len(log) :
          log[i].e = "notFound" => log[i].x = LatestNotFoundHandler
    /\ (/\ Len(log) > 0
        /\ log[Len(log)].e = "notFound"
        /\ nfCalls = <<>>) =>
            /\ res.statusCode = 404
            /\ res.ended
            /\ res.body = "Not Found"

C24_LastNotFoundHandlerWins ==
    /\ []NotFoundIsLatest
    /\ [][nfCalls' # nfCalls =>
            /\ middlewares' = middlewares
            /\ routes' = routes
            /\ notFoundHandler' = Last(nfCalls')]_vars

\* the handler of the second of two calls ran as the not-found terminal
C24_Witness ==
    /\ nfCalls = <<"custom", "custom2">>
    /\ Len(log) > 0
    /\ log[Len(log)] = Event("notFound", NoH, "custom2")

(***************************************************************************)
(* C27.  A handler that puts off its call of next() to a later callback    *)
(* holds the chain: as long as no other handler calls next or throws in    *)
(* the meantime (a send on a response whose headers are sent throws), no   *)
(* chain entry and no terminal (not-found, handleError) is invoked until   *)
(* that call; when the call comes, without an error, the entry right after *)
(* the handler is invoked, on the same request and response.               *)
(***************************************************************************)
\* where the handler that deferred at position i calls next: the first such
\* position after i, Len(log) + 1 while it has not called
NextAfter(i) ==
    LET at == {k \in (i + 1)..Len(log) : log[k].e = "next" /\ log[k].h = log[i].h}
    IN IF at = {} THEN Len(log) + 1 ELSE CHOOSE k \in at : \A l \in at : k <= l

\* the chain entry deferred at position i before it called next (the next
\* given to a not-found handler does nothing)
DefersItsNext(i) ==
    /\ log[i].e = "defer"
    /\ log[i].h.k # "nf"
    /\ \A k \in 1..(i - 1) : ~(log[k].e = "next" /\ log[k].h = log[i].h)

\* the headers of the response were sent before position j
HeadersSentBefore(j) ==
    \E k \in 1..(j - 1) :
        \/ log[k].e \in {"send", "write", "handleError"}
        \/ log[k].e = "notFound" /\ log[k].x = "default"

\* between positions i and k no other handler calls next or throws, a send
\* on a response whose headers are sent being a throw
OthersKeepStill(i, k) ==
    \A j \in (i + 1)..(k - 1) :
        (\/ log[j].e \in {"next", "throw"}
         \/ log[j].e = "send" /\ HeadersSentBefore(j)) => log[j].h = log[i].h

Invocations == {"call", "notFound", "handleError"}

\* the activation handler log[i].h runs in, and its place in that chain
ActivationAt(i) ==
    LET cs == {c \in 1..(i - 1) : IsCall(c) /\ log[c].h = log[i].h}
    IN log[CHOOSE c \in cs : \A d \in cs : d <= c].x

PlaceAt(i) ==
    CHOOSE p \in 1..Len(acts[ActivationAt(i)].chain) :
        acts[ActivationAt(i)].chain[p] = log[i].h

\* the next() that was put off invoked the entry after the handler
ResumesAtFollowing(i) ==
    LET k == NextAfter(i)
        a == ActivationAt(i)
    IN (/\ k < Len(log)
        /\ log[k].x = NoErr
        /\ PlaceAt(i) < Len(acts[a].chain)) =>
            log[k + 1] = Event("call", acts[a].chain[PlaceAt(i) + 1], a)

DeferredNextHolds ==
    phase = "serving" =>
        \A i \in 1..Len(log) :
            (DefersItsNext(i) /\ OthersKeepStill(i, NextAfter(i))) =>
                /\ \A j \in (i + 1)..(NextAfter(i) - 1) : log[j].e \notin Invocations
                /\ ResumesAtFollowing(i)

SameObjectsOnCall ==
    (Len(log') = Len(log) + 1 /\ log'[Len(log')].e = "call") => (req' = req /\ res' = res)

C27_DeferredNextHoldsChain ==
    /\ []DeferredNextHolds
    /\ [][SameObjectsOnCall]_vars

\* as the claim has it: whatever the other handlers do in the meantime
C27_DeferredNextAlwaysHolds ==
    phase = "serving" =>
        \A i \in 1..Len(log) :
            DefersItsNext(i) =>
                /\ \A j \in (i + 1)..(NextAfter(i) - 1) : log[j].e \notin Invocations
                /\ ResumesAtFollowing(i)

\* a handler put off its next(), called it later, and the following entry ran
C27_Witness ==
    /\ phase = "serving"
    /\ \E i \in 1..Len(log) :
          /\ DefersItsNext(i)
          /\ NextAfter(i) < Len(log)
          /\ log[NextAfter(i)].x = NoErr
          /\ IsCall(NextAfter(i) + 1)

(***************************************************************************)
(* C28.  response.status(code), response.send(body) and                    *)
(* response.json(data) return the response they were called on.  status    *)
(* sets the status code and nothing else: the response stays open.  On a   *)
(* response whose headers are not sent yet, send and json set Content-Type *)
(* (text/html, application/json) and end the response, which from then on  *)
(* counts as ended for the not-found check; on a response whose headers    *)
(* are sent they throw ERR_HTTP_HEADERS_SENT and return nothing.           *)
(***************************************************************************)
\* this step is a call of method name
IsMethodCall(name) ==
    /\ phase = "responding"
    /\ Len(log') = Len(log) + 1
    /\ log'[Len(log')].e = name

Returned == log'[Len(log')].x

StatusOnlySetsCode ==
    IsMethodCall("status") =>
        /\ Returned = "this"
        /\ res'.statusCode \in StatusCodes
        /\ res' = [res EXCEPT !.statusCode = res'.statusCode]
        /\ isResponseEnded(res') = isResponseEnded(res)

SetsTypeAndEnds(name, type) ==
    IsMethodCall(name) =>
        /\ Returned = "this"
        /\ res'.contentType = type
        /\ res'.ended
        /\ isResponseEnded(res')
        /\ res'.statusCode = res.statusCode

ThrowsWhenSent(name) ==
    IsMethodCall(name) => (Returned = HeadersSentError /\ res' = res)

C28_ResponseMethods ==
    [][/\ StatusOnlySetsCode
       /\ ~res.headersSent =>
             SetsTypeAndEnds("send", "text/html") /\ SetsTypeAndEnds("json", "application/json")
       /\ res.headersSent =>
             ThrowsWhenSent("send") /\ ThrowsWhenSent("json")]_vars

\* as the claim has it: in whatever state the response is
C28_ResponseMethodsAlways ==
    [][/\ StatusOnlySetsCode
       /\ SetsTypeAndEnds("send", "text/html")
       /\ SetsTypeAndEnds("json", "application/json")]_vars

\* status(404) and then json(data) were called and returned the response
C28_Witness ==
    /\ phase = "responding"
    /\ Len(log) = 2
    /\ log[1] = Event("status", NoH, "this")
    /\ log[2] = Event("json", NoH, "this")
    /\ res.statusCode = 404
    /\ res.contentType = "application/json"
    /\ res.ended

(***************************************************************************)
(* C29.  The chain has every middleware of the Application before the      *)
(* handlers of the matched route, also when the middleware (a function or  *)
(* the delegation to a mounted router) was registered after the route: it  *)
(* still runs before the route's handlers, and the route's handlers run    *)
(* one right after the other.                                              *)
(***************************************************************************)
\* the last handler invocation before position i
CallBefore(i) ==
    LET cs == {c \in 1..(i - 1) : IsCall(c)}
    IN CHOOSE c \in cs : \A d \in cs : d <= c

MountEntries == {m \in 1..Len(middlewares) : middlewares[m].kind = "mount"}

RouterHandlerCalls(h) == {i \in 1..Len(log) : IsCall(i) /\ log[i].h = h}

C30_RemountOverwrites ==
    (phase = "serving" /\ Cardinality({middlewares[m].path : m \in MountEntries}) >= 2) =>
        \A i \in 1..Len(log) :
            (IsCall(i) /\ log[i].h.k = "rrh") =>
                /\ routerMatchOne(basePath, rRoutes[log[i].h.r].path, req.url).matched
                /\ Cardinality(RouterHandlerCalls(log[i].h)) <= 1

(***************************************************************************)
(* C26.  With several requests in flight and the next() calls of their     *)
(* asynchronous handlers interleaved, every request keeps its own chain,   *)
(* cursor, params and matched-route flag: the handlers invoked with a      *)
(* request are the ones it has when it is served alone, as far as its own  *)
(* handlers called next(), whatever the other requests did.                *)
(***************************************************************************)
\* the handlers invoked with a request served alone when every one of them
\* calls next(): the chain, the router's handlers after the middleware of
\* mount that finds a route
RECURSIVE AloneFrom(_, _)
AloneFrom(fl, i) ==
    IF i > Len(fl.chain) THEN <<>>
    ELSE LET h == fl.chain[i]
             r == IF IsMountEntry(h) THEN FlightRouterRoute(fl, h) ELSE 0
         IN <<h>> \o (IF r = 0 THEN <<>> ELSE RouterChain(rMiddlewares, rRoutes, r))
                \o AloneFrom(fl, i + 1)

\* the entries of s that wait for a decision: all but the middleware of mount
Deciders(s) == {k \in 1..Len(s) : ~IsMountEntry(s[k])}

AppEntries(s) == {k \in 1..Len(s) : s[k].k \in {"mw", "rh"}}

OwnParams(fl) ==
    LET r == FindRoute(routes, fl.req.method, fl.req.url)
        own == IF r = 0 THEN EmptyParams ELSE extractParams(routes[r].path, fl.req.url)
        rr == {k \in 1..Len(fl.calls) : fl.calls[k].k = "rrh"}
    IN IF rr = {} THEN own
       ELSE MergeParams(own, routerMatchOne(basePath,
                                rRoutes[fl.calls[CHOOSE k \in rr : TRUE].r].path,
                                fl.req.url).params)

KeepsItsOwn(fl) ==
    LET r == FindRoute(routes, fl.req.method, fl.req.url)
        alone == AloneFrom(fl, 1)
        all == Cardinality(Deciders(alone))
    IN /\ fl.chain = AssembleChain(middlewares, routes, r)
       /\ fl.hasRoute = (r # 0)
       /\ IsPrefix(fl.calls, alone)
       /\ Cardinality(Deciders(fl.calls))
             = (IF fl.nexts + 1 <= all THEN fl.nexts + 1 ELSE all)
       /\ fl.index = Cardinality(AppEntries(fl.calls)) + (IF fl.term = "" THEN 0 ELSE 1)
       /\ fl.req.params = OwnParams(fl)
       /\ fl.term # "" => fl.calls = alone

C26_RequestsKeepTheirOwnCursor ==
    \A f \in 1..Len(flights) : KeepsItsOwn(flights[f])

\* two different requests in flight, the one that came first still waiting
\* after both had handlers call next()
C26_Witness ==
    /\ Len(flights) = 2
    /\ flights[1].req.url # flights[2].req.url
    /\ flights[1].waiting
    /\ flights[1].nexts >= 1
    /\ flights[2].nexts >= 1
    /\ Len(flights[1].calls) # Len(flights[2].calls)

(***************************************************************************)
(* C25.  Two runs of the same request on the same registrations in which   *)
(* the handlers decide the same at other times invoke the same handlers    *)
(* in the same order; they come to the same outcome (the terminals that    *)
(* ran, the response) when no handler decided more than once.              *)
(***************************************************************************)
Invoked(lg) == SelectSeq(lg, LAMBDA v : v.e = "call")

Terminals(lg) == SelectSeq(lg, LAMBDA v : v.e \in {"handleError", "notFound"})

SameDecisions ==
    /\ past # <<>>
    /\ Finished
    /\ \A h \in HandlersIn(log) \cup HandlersIn(past[1].log) :
          Decisions(h, log) = Decisions(h, past[1].log)

SameInvocations == Invoked(log) = Invoked(past[1].log)

SameOutcome ==
    /\ Terminals(log) = Terminals(past[1].log)
    /\ res = past[1].res

DecidedOnce == \A h \in HandlersIn(log) : Len(Decisions(h, log)) <= 1

C25_SameDecisionsSameInvocations ==
    SameDecisions => (SameInvocations /\ (DecidedOnce => SameOutcome))

\* as the claim has it: the same outcome whatever the handlers decided
C25_TimingNeverMatters ==
    SameDecisions => (SameInvocations /\ SameOutcome)

\* the second run went through callbacks that the first did not wait for,
\* two handlers deciding once each
C25_Witness ==
    /\ SameDecisions
    /\ DecidedOnce
    /\ \E i \in 1..Len(log) : log[i].e = "later"
    /\ \A i \in 1..Len(past[1].log) : past[1].log[i].e # "later"
    /\ Len(Invoked(log)) >= 2
    /\ \E i \in 1..Len(log) : log[i].e = "send"

(***************************************************************************)
(* C31.  When a pattern repeats a parameter name, the name is bound to the *)
(* segment of the path at the first place of the name in the pattern, by   *)
(* the matcher of the Application and by the matcher of the Router.        *)
(***************************************************************************)
\* the first place of the parameter that segment k of ps names
FirstPlace(ps, k) ==
    CHOOSE l \in 1..k : ps[l] = ps[k] /\ \A m \in 1..(l - 1) : ps[m] # ps[k]

C31_FirstOccurrenceWins ==
    (/\ mOut.by # ""
     /\ mOut.now.matched
     /\ IncludesColon(mIn.pattern)) =>
        LET ps == Segments(FullPattern)
            cs == Segments(mIn.path)
        IN \A k \in 1..Len(ps) :
              IsParamSeg(ps[k]) =>
                  mOut.now.params[Tail(ps[k])] = cs[FirstPlace(ps, k)]

(***************************************************************************)
(* C39.  The matcher of the Application and the matcher of the Router,     *)
(* the latter with an empty base path, agree on every pattern and path:    *)
(* both match or neither does, and on a match they deliver the same        *)
(* params; so for paths with a trailing slash, paths with repeated slashes *)
(* and pattern segments that mix ':name' with literal characters.          *)
(***************************************************************************)
C39_MatchersAgree ==
    mOut.by = "both" => mOut.now = mOut.before

(***************************************************************************)
(* C34.  serveStatic raises the traversal error only for paths with a      *)
(* parent-directory segment: a request whose decoded path has no '..'      *)
(* segment, such as one for a file named a..b, is never answered with      *)
(* next(error 'Invalid file path') and goes on to the file system.         *)
(***************************************************************************)
C34_TraversalErrorOnlyForSegments ==
    (/\ sIn.method \in {"GET", "HEAD"}
     /\ decodeURIComponent(sIn.url).ok
     /\ ~HasTraversalSegment(decodeURIComponent(sIn.url).out)
     /\ sRun.pc \notin {"off", "start"}) =>
        /\ \A k \in 1..Len(sRun.nexts) : sRun.nexts[k] # InvalidFilePath
        /\ IncludesDotDot(sIn.url) => sRun.fs # <<>>

(***************************************************************************)
(* C38.  Whatever the file system calls back with (stat failing or         *)
(* succeeding, a directory, a file or something else, the stat of the      *)
(* index, the stat for HEAD, an error of the stream), serveStatic calls    *)
(* next at most once, and a call of next() without an error never comes    *)
(* with a status, a header or a body written to the response.              *)
(***************************************************************************)
C38_NextAtMostOnce ==
    /\ Len(sRun.nexts) <= 1
    /\ (\E k \in 1..Len(sRun.nexts) : sRun.nexts[k] = NoErr) => sRes = FreshStaticRes

\* the index file of a directory was being streamed, a chunk written, when
\* the stream failed: the one call of next carries the error
C38_Witness ==
    /\ sRun.pc = "done"
    /\ sRun.stat = "dir"
    /\ sRun.indexStat = "file"
    /\ sRun.streamError # ""
    /\ sRes.headersSent
    /\ Len(sRun.nexts) = 1

(***************************************************************************)
(* C33.  With router R2 mounted at p on router R1 and R1 mounted on the    *)
(* Application, every request whose method and path match p followed by a  *)
(* route pattern of R2 reaches the handlers of that route, whether or not  *)
(* R1 has a route that matches the request.                                *)
(***************************************************************************)
C33_NestedRouterReached ==
    (phase = "nested" /\ nest.onR1) =>
        LET r == RouterFind(nest.r2, nest.b2, nest.req.method, nest.req.url)
        IN r # 0 =>
              \E i \in 1..Len(nest.calls) : nest.calls[i] = H("r2h", r, 1)

(***************************************************************************)
(* C32.  next is not guarded against being called twice: when a handler    *)
(* that has already called next calls next() again without an error, the   *)
(* cursor advances again and the following chain entry is invoked, or, the *)
(* chain being exhausted, the step for an exhausted chain is taken (the    *)
(* not-found handler in handleRequest, done() in Router.handle).           *)
(***************************************************************************)
\* the latest invocation of the handler log[k].h before position k
CallOfActivation(k) ==
    LET cs == {c \in 1..(k - 1) : IsCall(c) /\ log[c].h = log[k].h}
    IN CHOOSE c \in cs : \A d \in cs : d <= c

\* at position k a chain entry calls next() without an error, having called
\* next before since it was last invoked
RepeatedNextAt(k) ==
    /\ log[k].e = "next"
    /\ log[k].x = NoErr
    /\ log[k].h.k # "nf"
    /\ \E j \in (CallOfActivation(k) + 1)..(k - 1) :
          log[j].e = "next" /\ log[j].h = log[k].h

\* the handler on top of the stack has called next before
CalledNextBefore ==
    \E j \in 1..Len(log) : log[j].e = "next" /\ log[j].h = Top(stack).h

\* a step in which a chain entry that has called next before calls next()
\* without an error
CallsNextAgain ==
    /\ stack # <<>>
    /\ Top(stack).h.k # "nf"
    /\ Top(stack).ops >= 1
    /\ CalledNextBefore
    /\ log' = Append(log, Event("next", Top(stack).h, NoErr))

\* such a call is being served by the next of the closure the handler acts in
SecondNextPending ==
    /\ ctl.op = "next"
    /\ ctl.err = NoErr
    /\ stack # <<>>
    /\ Top(stack).act = ctl.act
    /\ Top(stack).ops >= 2
    /\ log # <<>>
    /\ log[Len(log)] = Event("next", Top(stack).h, NoErr)
    /\ \E j \in 1..(Len(log) - 1) : log[j].e = "next" /\ log[j].h = Top(stack).h

\* the step moves the cursor of closure a by one and invokes the entry it
\* moves onto or, the chain being exhausted, takes the step for that
AdvancesAgain(a) ==
    LET A == acts[a]
    IN IF A.index < Len(A.chain)
       THEN /\ acts'[a].index = A.index + 1
            /\ log' = Append(log, Event("call", A.chain[A.index + 1], a))
            /\ Top(stack').h = A.chain[A.index + 1]
       ELSE IF A.kind = "app"
            THEN /\ acts'[a].index = A.index + 1
                 /\ IF ~A.hasRoute /\ ~isResponseEnded(res)
                    THEN ctl'.op = "notFound"
                    ELSE UNCHANGED <<log, res>>
            ELSE ctl' = [op |-> "next", act |-> A.done, err |-> NoErr]

C32_SecondNextAdvancesAgain ==
    [][phase = "serving" =>
          /\ CallsNextAgain =>
                ctl' = [op |-> "next", act |-> Top(stack).act, err |-> NoErr]
          /\ SecondNextPending => AdvancesAgain(ctl.act)]_vars

\* a second next() has invoked the following chain entry
C32_Witness ==
    /\ phase = "serving"
    /\ \E k \in 1..(Len(log) - 1) : RepeatedNextAt(k) /\ log[k + 1].e = "call"

(***************************************************************************)
(* C36.  Within one request, however many times and whenever next() is     *)
(* called, the entries of the assembled chain are invoked at most once     *)
(* each and in strictly increasing chain position: the cursor never        *)
(* decreases and never repeats a position.  The same holds of the inner    *)
(* chain of Router.handle within one delegation.                           *)
(***************************************************************************)
\* the entries invoked by closure a are the first entries of its chain, in
\* the chain's order, and the cursor has passed them
InvokedInOrder(a) ==
    LET cs == CallsOf(a)
    IN /\ Len(cs) <= Len(acts[a].chain)
       /\ cs = SubSeq(acts[a].chain, 1, Len(cs))
       /\ \A i, j \in 1..Len(cs) : cs[i] = cs[j] => i = j
       /\ acts[a].index >= Len(cs)

\* a step leaves the cursor of closure a where it is or moves it forward; a
\* step that invokes an entry moves it by one position, onto that entry
CursorMovesOn(a) ==
    /\ acts'[a].index >= acts[a].index
    /\ Len(CallsFrom(a, 1)') > Len(CallsFrom(a, 1)) =>
          /\ acts'[a].index = acts[a].index + 1
          /\ log'[Len(log')].h = acts[a].chain[acts'[a].index]

C36_EachEntryOnceInOrder ==
    /\ [](phase = "serving" => \A a \in 1..Len(acts) : InvokedInOrder(a))
    /\ [][phase = "serving" => \A a \in 1..Len(acts) : CursorMovesOn(a)]_vars

\* a handler has called next twice and two entries of a chain were invoked
C36_Witness ==
    /\ phase = "serving"
    /\ \E a \in 1..Len(acts) : Len(CallsOf(a)) >= 2
    /\ \E i \in 1..Len(log) : Cardinality(NextsAt(log[i].h)) >= 2

(***************************************************************************)
(* C35.  When a route of a mounted router matches, req.params is the       *)
(* params the request had before with the matched route's bindings laid    *)
(* over them: names the route does not bind keep their value, names it     *)
(* binds take the router's value, and the bindings of routes of the router *)
(* that were tried and did not match never appear.                         *)
(***************************************************************************)
\* the params handleRequest gave the request
ParamsBefore ==
    LET r == FindRoute(routes, req.method, req.url)
    IN IF r = 0 THEN EmptyParams ELSE extractParams(routes[r].path, req.url)

\* the route of the router that matched, and its bindings
MatchedRouterRoute == RouterFind(rRoutes, basePath, req.method, req.url)

RouterBindings ==
    routerMatchOne(basePath, rRoutes[MatchedRouterRoute].path, req.url).params

\* the router has taken the request: its closure was created
RouterMatched == phase = "serving" /\ \E a \in 1..Len(acts) : acts[a].kind = "router"

\* the names route pattern p binds
NamesBoundBy(p) ==
    {SubSeq(Segments(p)[i], 2, Len(Segments(p)[i])) :
        i \in {j \in 1..Len(Segments(p)) : StartsWith(Segments(p)[j], <<":">>)}}

C35_RouterParamsOverlay ==
    RouterMatched =>
        /\ DOMAIN req.params = (DOMAIN ParamsBefore) \cup (DOMAIN RouterBindings)
        /\ \A n \in DOMAIN RouterBindings : req.params[n] = RouterBindings[n]
        /\ \A n \in (DOMAIN ParamsBefore) \ (DOMAIN RouterBindings) :
              req.params[n] = ParamsBefore[n]
        /\ \A q \in 1..(MatchedRouterRoute - 1) :
              \A n \in NamesBoundBy(rRoutes[q].path) :
                  n \notin (DOMAIN ParamsBefore) \cup (DOMAIN RouterBindings) =>
                      n \notin DOMAIN req.params

\* the router's route rebinds a name to another segment, leaves another
\* name as it was, and an earlier route of the router bound a third name
\* before it failed
C35_Witness ==
    /\ RouterMatched
    /\ \E n \in (DOMAIN ParamsBefore) \cap (DOMAIN RouterBindings) :
          ParamsBefore[n] # RouterBindings[n]
    /\ (DOMAIN ParamsBefore) \ (DOMAIN RouterBindings) # {}
    /\ \E q \in 1..(MatchedRouterRoute - 1) :
          /\ rRoutes[q].method = req.method
          /\ \E n \in NamesBoundBy(rRoutes[q].path) : n \notin DOMAIN req.params

(***************************************************************************)
(* C37.  If every handler of the assembled chain, when invoked, eventually *)
(* either ends the response or calls next() exactly once, the response of  *)
(* every request is eventually ended, by a handler, by the not-found       *)
(* handler or by the error handler; in particular when a route matched and *)
(* all its handlers call next() without responding.                       *)
(***************************************************************************)
C37_ResponseEventuallyEnded == (phase = "serving") ~> res.ended

====
